---- MODULE Spec2Model ----
(***************************************************************************)
(* A model of warpalib (the Ren'Py archive codec) and of the parts of the  *)
(* warpa command line that configure a container before it is written.     *)
(*                                                                         *)
(* Representation.                                                         *)
(*   u64        a tuple of 16 hexadecimal digits, most significant first,  *)
(*              so that XOR and `{:x}` formatting keep their full width.   *)
(*   byte       an integer 0..255; text is its ASCII codes.                *)
(*   Option<T>  None is <<>>, Some(x) is <<x>>.                            *)
(*   Result     [ok |-> TRUE, v |-> value] or [ok |-> FALSE, v |-> error]. *)
(*   stream     [bytes, idx, idxpos]: the bytes of a file or cursor; the   *)
(*              zlib-compressed pickle of the index table occupies the     *)
(*              bytes from idxpos on and decodes to idx (idxpos = -1 when   *)
(*              the stream holds no decodable index).                      *)
(***************************************************************************)
EXTENDS Integers, Sequences, FiniteSets, TLC

VARIABLES
    state,      \* lifetime of the container: "unopened", "open", "flushed", and
                \* "readback" once the bytes flush wrote have been read
    reader,     \* RenpyArchive.reader: the stream the container reads from
    rpos,       \* position of the reader's cursor
    key,        \* RenpyArchive.key: Option<u64>
    offset,     \* RenpyArchive.offset: where the index table was found
    version,    \* RenpyArchive.version
    content,    \* RenpyArchive.content: path -> Content
    sink,       \* the writer handed to flush (a stream)
    wpos,       \* position of the writer's cursor
    seeks,      \* number of seeks performed on the writer
    fs,         \* the file system: file path -> bytes, for the files that exist
    result,     \* outcome of the last operation
    pre,        \* the container as it was when flush consumed it
    inserts,    \* how many insertions have been made so far
    call,       \* the pure function applied and its arguments (SpecPure)
    ret,        \* its value, or NotCalled
    workers,    \* the workers of a threaded extraction and what they wrote (SpecWorkers)
    cli         \* the files and the position of a replace_archive run (SpecReplace)

archiveVars == <<state, reader, rpos, key, offset, version, content, sink, wpos,
                 seeks, fs, result, pre, inserts>>
pureVars == <<call, ret>>
vars == <<state, reader, rpos, key, offset, version, content, sink, wpos,
          seeks, fs, result, pre, inserts, call, ret, workers, cli>>

----------------------------------------------------------------------------
(* Bounds of the model. *)

\* Number of archive paths the content maps range over.
MaxPaths == 2
\* Largest number of insertions into content maps in one behaviour.
MaxInserts == 2
\* Longest reader handed to copy_section in SpecPure.
MaxReaderLen == 5
\* Longest inner and outer sequences of the values handed to from_value in SpecPure.
MaxInner == 4
MaxOuter == 2
\* Most bytes that follow the index table in the archives of SpecScenario.
MaxTrailing == 470
\* Most tokens after the offset in the first lines handed to read in SpecPure.
MaxSubkeys == 3
\* Longest command-line argument parsed as a mapped path in SpecPure.
MaxArgLen == 4
\* Most files named on the command line of Remove in SpecPure.
MaxFiles == 1
\* Workers of a threaded extraction, and the most bytes one read yields.
NWorkers == 2
ChunkLen == 2

----------------------------------------------------------------------------
(* Option and Result. *)

None == <<>>
Some(x) == <<x>>
IsSome(o) == Len(o) = 1
Ok(x) == [ok |-> TRUE, v |-> x]
Err(e) == [ok |-> FALSE, v |-> e]

Min(a, b) == IF a <= b THEN a ELSE b
Max(a, b) == IF a >= b THEN a ELSE b

----------------------------------------------------------------------------
(* 64-bit words. *)

Nibbles == 0..15
Bit(n, k) == (n \div (2^k)) % 2
NibXor == [a \in Nibbles |-> [b \in Nibbles |->
             ((Bit(a, 0) + Bit(b, 0)) % 2)
           + 2 * ((Bit(a, 1) + Bit(b, 1)) % 2)
           + 4 * ((Bit(a, 2) + Bit(b, 2)) % 2)
           + 8 * ((Bit(a, 3) + Bit(b, 3)) % 2)]]

\* a ^ b on u64
U64Xor(a, b) == [i \in 1..16 |-> NibXor[a[i]][b[i]]]
\* !a on u64
U64Not(a) == [i \in 1..16 |-> 15 - a[i]]
\* a.wrapping_add(1) on u64
U64Inc(a) == [i \in 1..16 |->
                 IF \A j \in (i+1)..16 : a[j] = 15 THEN (a[i] + 1) % 16 ELSE a[i]]
\* a.wrapping_neg() on u64
U64Neg(a) == U64Inc(U64Not(a))

U64Zero == [i \in 1..16 |-> 0]
U64Max == [i \in 1..16 |-> 15]

\* Sizes and positions of the model's streams stay far below Huge; a u64 at or
\* above it reads as Huge, which is past the end of every stream.
Huge == 16^7
U64OfNat(n) == [i \in 1..16 |-> IF i <= 9 THEN 0 ELSE (n \div (16^(16 - i))) % 16]
NatOfU64(u) ==
    IF \E i \in 1..9 : u[i] # 0 THEN Huge
    ELSE u[10] * 16^6 + u[11] * 16^5 + u[12] * 16^4 + u[13] * 16^3
       + u[14] * 16^2 + u[15] * 16 + u[16]

\* The i64 of the pickle values, as sign and magnitude; `as i64` and `as u64`
\* reinterpret the two's complement bits.
AsI64(u) == IF u[1] >= 8 THEN [neg |-> TRUE, mag |-> U64Neg(u)]
                         ELSE [neg |-> FALSE, mag |-> u]
AsU64(i) == IF i.neg THEN U64Neg(i.mag) ELSE i.mag

----------------------------------------------------------------------------
(* Text. *)

SP == 32
NL == 10
HexDigit(d) == IF d < 10 THEN 48 + d ELSE 87 + d
\* char::to_digit(16): Some(d) or None
ToDigit(c) == IF c >= 48 /\ c <= 57 THEN Some(c - 48)
              ELSE IF c >= 97 /\ c <= 102 THEN Some(c - 87)
              ELSE IF c >= 65 /\ c <= 70 THEN Some(c - 55)
              ELSE None

SigDigits(u) == IF u = U64Zero THEN 1
                ELSE 17 - (CHOOSE i \in 1..16 : u[i] # 0 /\ \A j \in 1..(i-1) : u[j] = 0)
\* format!("{:0width$x}", u): at least `width` digits, more when u needs them
FormatHex(u, width) ==
    LET n == Max(width, SigDigits(u))
    IN [i \in 1..n |-> HexDigit(u[16 - n + i])]

\* u64::from_str_radix(s, 16): Some(u64), or None for the empty string, a
\* character that is no digit, or a value that overflows 64 bits.
LeadingZeros(body) ==
    IF \A i \in 1..Len(body) : body[i] = 48 THEN Len(body)
    ELSE (CHOOSE i \in 1..Len(body) : body[i] # 48 /\ \A j \in 1..(i-1) : body[j] = 48) - 1
DigitsToU64(sig) ==
    IF Len(sig) > 16 THEN None
    ELSE Some([i \in 1..16 |->
                 IF i <= 16 - Len(sig) THEN 0 ELSE ToDigit(sig[i - (16 - Len(sig))])[1]])
ParseDigits(body) ==
    IF Len(body) = 0 THEN None
    ELSE IF \E i \in 1..Len(body) : ToDigit(body[i]) = None THEN None
    ELSE DigitsToU64(SubSeq(body, LeadingZeros(body) + 1, Len(body)))
FromStrRadix16(s) == ParseDigits(IF Len(s) > 0 /\ s[1] = 43 THEN Tail(s) ELSE s)

\* str::split(" "): the tokens between spaces (always at least one token)
RECURSIVE Split(_)
Split(s) ==
    IF \A i \in 1..Len(s) : s[i] # SP THEN <<s>>
    ELSE LET k == CHOOSE i \in 1..Len(s) : s[i] = SP /\ \A j \in 1..(i-1) : s[j] # SP
         IN <<SubSeq(s, 1, k - 1)>> \o Split(SubSeq(s, k + 1, Len(s)))

----------------------------------------------------------------------------
(* RpaVersion. *)

Versions == {"V3_2", "V3_0", "V2_0", "V1_0"}
SigV3_2 == <<82, 80, 65, 45, 51, 46, 50>>
SigV3_0 == <<82, 80, 65, 45, 51, 46, 48>>
SigV2_0 == <<82, 80, 65, 45, 50, 46, 48>>

\* str::ends_with("rpi") on the file name
EndsWithRpi(name) ==
    Len(name) >= 3 /\ SubSeq(name, Len(name) - 2, Len(name)) = <<114, 112, 105>>

\* A mutation of identify: the file name is looked at before the signature.
identify_NameFirst(file_name, header) ==
    IF EndsWithRpi(file_name) THEN Some("V1_0")
    ELSE IF header = SigV3_2 THEN Some("V3_2")
    ELSE IF header = SigV3_0 THEN Some("V3_0")
    ELSE IF header = SigV2_0 THEN Some("V2_0")
    ELSE None

identify(file_name, header) ==
    IF header = SigV3_2 THEN Some("V3_2")
    ELSE IF header = SigV3_0 THEN Some("V3_0")
    ELSE IF header = SigV2_0 THEN Some("V2_0")
    ELSE IF EndsWithRpi(file_name) THEN Some("V1_0")
    ELSE None

HeaderLenV3_0 == 34
HeaderLenV2_0 == 25

\* A mutation of header_length: the lengths of V3_0 and V2_0 are exchanged.
header_length_Swapped(v) ==
    IF v = "V3_0" THEN Ok(HeaderLenV2_0)
    ELSE IF v = "V2_0" THEN Ok(HeaderLenV3_0)
    ELSE Err("WritingNotSupported")

\* A mutation of header_length: every version is given the length of V3_0.
header_length_AnyVersion(v) == Ok(HeaderLenV3_0)

header_length(v) ==
    IF v = "V3_0" THEN Ok(HeaderLenV3_0)
    ELSE IF v = "V2_0" THEN Ok(HeaderLenV2_0)
    ELSE Err("WritingNotSupported")

\* Version::write_support of the earlier source tree
write_support(v) ==
    IF v = "V3_2" THEN FALSE
    ELSE IF v = "V3_0" THEN TRUE
    ELSE IF v = "V2_0" THEN TRUE
    ELSE FALSE

----------------------------------------------------------------------------
(* serde_pickle::Value, as far as the index table uses it.  One record      *)
(* shape for every variant: t is the variant, and i, b, l hold the payload   *)
(* of I64, Bytes and List.                                                   *)

I64Zero == [neg |-> FALSE, mag |-> U64Zero]
VI64(i) == [t |-> "I64", i |-> i, b |-> <<>>, l |-> <<>>]
VBytes(b) == [t |-> "Bytes", i |-> I64Zero, b |-> b, l |-> <<>>]
VList(l) == [t |-> "List", i |-> I64Zero, b |-> <<>>, l |-> l]
VString == [t |-> "String", i |-> I64Zero, b |-> <<>>, l |-> <<>>]
VNone == [t |-> "None", i |-> I64Zero, b |-> <<>>, l |-> <<>>]

----------------------------------------------------------------------------
(* Record (record.rs); index.rs holds the same code under the name Index.   *)

\* A mutation of Record::new: the key is ignored.
Record_new_KeyIgnored(start, length, prefix, k) ==
    [start |-> start, length |-> length, prefix |-> prefix]

\* A mutation of Record::new: the key is applied to start only.
Record_new_StartOnly(start, length, prefix, k) ==
    [start  |-> IF IsSome(k) THEN U64Xor(start, k[1]) ELSE start,
     length |-> length,
     prefix |-> prefix]

Record_new(start, length, prefix, k) ==
    [start  |-> IF IsSome(k) THEN U64Xor(start, k[1]) ELSE start,
     length |-> IF IsSome(k) THEN U64Xor(length, k[1]) ELSE length,
     prefix |-> prefix]

from_value(value, k) ==
    IF value.t # "List" THEN Err("FormatRecord")
    ELSE IF Len(value.l) = 0 \/ value.l[1].t # "List" THEN Err("FormatRecord")
    ELSE LET inner == value.l[1].l
             \* the three calls of iter.next()
             has(n) == Len(inner) >= n
         IN IF has(1) /\ inner[1].t = "I64" /\ has(2) /\ inner[2].t = "I64" /\ ~has(3)
            THEN Ok(Record_new(AsU64(inner[1].i), AsU64(inner[2].i), None, k))
            ELSE IF has(1) /\ inner[1].t = "I64" /\ has(2) /\ inner[2].t = "I64"
                    /\ has(3) /\ inner[3].t = "Bytes"
            THEN Ok(Record_new(AsU64(inner[1].i), AsU64(inner[2].i), Some(inner[3].b), k))
            ELSE Err("FormatRecord")

\* A mutation of into_value: an empty prefix is left out like an absent one.
into_value_EmptyPrefixOmitted(r) ==
    LET values == <<VI64(AsI64(r.start)), VI64(AsI64(r.length))>>
    IN VList(<<VList(IF IsSome(r.prefix) /\ r.prefix[1] # <<>>
                     THEN Append(values, VBytes(r.prefix[1])) ELSE values)>>)

\* Record::into_value
into_value(r) ==
    LET values == <<VI64(AsI64(r.start)), VI64(AsI64(r.length))>>
    IN VList(<<VList(IF IsSome(r.prefix) THEN Append(values, VBytes(r.prefix[1]))
                                         ELSE values)>>)

PrefixLen(r) == IF IsSome(r.prefix) THEN Len(r.prefix[1]) ELSE 0

\* length - prefix.len() on u64.  When the subtraction underflows, a build with
\* overflow checks panics and a build without them wraps to a value near 2^64.
actual_length(r, checks) ==
    LET len == NatOfU64(r.length)
    IN IF len = Huge THEN Ok(Huge)
       ELSE IF len >= PrefixLen(r) THEN Ok(len - PrefixLen(r))
       ELSE IF checks THEN Err("panic")
       ELSE Ok(Huge)

\* reader.seek(Start(start)) and take(actual_length): the position sought and
\* the number of bytes the Take may still yield.
scope(r, checks) ==
    LET n == actual_length(r, checks)
    IN IF n.ok THEN Ok([pos |-> NatOfU64(r.start), limit |-> n.v]) ELSE n

\* The bytes io::copy moves out of a Take of `limit` bytes at `pos`.
TakeFrom(bytes, pos, limit) ==
    IF pos >= Len(bytes) THEN <<>>
    ELSE SubSeq(bytes, pos + 1, pos + Min(limit, Len(bytes) - pos))

\* A copy: res is the io::Result<u64> returned, out the bytes that reached the
\* writer, pos the reader's position afterwards.
Copied(res, out, pos) == [res |-> res, out |-> out, pos |-> pos]

\* copy_section after scope(): write_all(prefix), then io::copy(&mut scope,
\* writer), whose count is what the function returns.
copy_section_data(r, sc, data) ==
    Copied(Ok(Len(data)), (IF IsSome(r.prefix) THEN r.prefix[1] ELSE <<>>) \o data,
           IF sc.pos = Huge THEN Huge ELSE sc.pos + Len(data))

\* A mutation of copy_section_scoped: the reader is not repositioned, and
\* the bytes are taken from where it stands.
copy_section_scoped_FromCurrent(r, bytes, pos, sc) ==
    IF ~sc.ok THEN Copied(sc, <<>>, pos)
    ELSE copy_section_data(r, [sc.v EXCEPT !.pos = pos], TakeFrom(bytes, pos, sc.v.limit))

copy_section_scoped(r, bytes, pos, sc) ==
    IF ~sc.ok THEN Copied(sc, <<>>, pos)
    ELSE copy_section_data(r, sc.v, TakeFrom(bytes, sc.v.pos, sc.v.limit))

copy_section(r, bytes, pos, checks) == copy_section_scoped(r, bytes, pos, scope(r, checks))

-----
(* Content and ContentMap (content.rs). *)

NoRecord == [start |-> U64Zero, length |-> U64Zero, prefix |-> None]
CRecord(r) == [kind |-> "Record", rec |-> r, path |-> "", data |-> <<>>]
CFile(p) == [kind |-> "File", rec |-> NoRecord, path |-> p, data |-> <<>>]
CRaw(d) == [kind |-> "Raw", rec |-> NoRecord, path |-> "", data |-> d]

\* A mutation of copy_to: a file that cannot be opened copies nothing and
\* succeeds.
copy_to_MissingIsEmpty(c, bytes, pos, files, checks) ==
    IF c.kind = "Record" THEN copy_section(c.rec, bytes, pos, checks)
    ELSE IF c.kind = "File"
    THEN IF c.path \in DOMAIN files
         THEN Copied(Ok(Len(files[c.path])), files[c.path], pos)
         ELSE Copied(Ok(0), <<>>, pos)
    ELSE Copied(Ok(Len(c.data)), c.data, pos)

\* Content::copy_to against the reader `bytes` at `pos` and the file system `files`
copy_to(c, bytes, pos, files, checks) ==
    IF c.kind = "Record" THEN copy_section(c.rec, bytes, pos, checks)
    ELSE IF c.kind = "File"
    THEN IF c.path \in DOMAIN files
         THEN Copied(Ok(Len(files[c.path])), files[c.path], pos)
         ELSE Copied(Err("Io"), <<>>, pos)
    ELSE Copied(Ok(Len(c.data)), c.data, pos)

\* HashMap::insert: the map with `c` under `p`
MapInsert(m, p, c) == [q \in DOMAIN m \cup {p} |-> IF q = p THEN c ELSE m[q]]
MapGet(m, p) == IF p \in DOMAIN m THEN Some(m[p]) ELSE None
EmptyMap == [q \in {} |-> CRaw(<<>>)]

insert_file(m, path) == [map |-> MapInsert(m, path, CFile(path)), old |-> MapGet(m, path)]
\* A mutation of insert_file_mapped: the archive path is stored as the file.
insert_file_mapped_KeyAsFile(m, archive_path, file_path) ==
    [map |-> MapInsert(m, archive_path, CFile(archive_path)), old |-> MapGet(m, archive_path)]

insert_file_mapped(m, archive_path, file_path) ==
    [map |-> MapInsert(m, archive_path, CFile(file_path)), old |-> MapGet(m, archive_path)]
insert_raw(m, path, bytes) ==
    [map |-> MapInsert(m, path, CRaw(bytes)), old |-> MapGet(m, path)]

\* HashMap::remove: the map without the key p
MapRemove(m, p) == [q \in DOMAIN m \ {p} |-> m[q]]

\* A mutation of rename_key: the entry stays under the old path as well.
rename_key_KeepsOld(m, old_path, new_path) ==
    IF old_path \in DOMAIN m
    THEN [map |-> MapInsert(m, new_path, m[old_path]), res |-> Ok(MapGet(m, new_path)),
          missing |-> None]
    ELSE [map |-> m, res |-> Err("NotFound"), missing |-> Some(old_path)]

\* A mutation of rename_key: the entry at the new path is removed before the
\* old path is looked up.
rename_key_ClearsNew(m, old_path, new_path) ==
    IF old_path \in DOMAIN m
    THEN [map |-> MapInsert(MapRemove(m, old_path), new_path, m[old_path]),
          res |-> Ok(MapGet(MapRemove(m, old_path), new_path)), missing |-> None]
    ELSE [map |-> MapRemove(m, new_path), res |-> Err("NotFound"),
          missing |-> Some(old_path)]

\* ContentMap::rename_key: the map afterwards, the RpaResult<Option<Content>>
\* returned, and the path NotFound carries.
rename_key(m, old_path, new_path) ==
    IF old_path \in DOMAIN m
    THEN [map |-> MapInsert(MapRemove(m, old_path), new_path, m[old_path]),
          res |-> Ok(MapGet(MapRemove(m, old_path), new_path)), missing |-> None]
    ELSE [map |-> m, res |-> Err("NotFound"), missing |-> Some(old_path)]

----------------------------------------------------------------------------
(* Streams. *)

Stream(bytes, idx, idxpos) == [bytes |-> bytes, idx |-> idx, idxpos |-> idxpos]
NoIndex == [q \in {} |-> VNone]
EmptyStream == Stream(<<>>, NoIndex, -1)

\* The bytes of zlib(pickle(idx)): a zlib header and opaque binary data.
IndexBlob(idx) == <<120, 156>> \o [i \in 1..Cardinality(DOMAIN idx) |-> 218]

\* Write::write of `data` at position `pos` of a cursor over `bytes`
Overwrite(bytes, pos, data) ==
    [i \in 1..Max(Len(bytes), pos + Len(data)) |->
        IF i > pos /\ i <= pos + Len(data) THEN data[i - pos] ELSE bytes[i]]

\* String::from_utf8 succeeds; the model's text is ASCII, and a byte above 127
\* is binary data that is no UTF-8.
IsUtf8(s) == \A i \in 1..Len(s) : s[i] < 128

\* Path::to_string_lossy: the model's paths are valid Unicode, which the
\* conversion returns as they are.
ToStringLossy(path) == path

----------------------------------------------------------------------------
(* RenpyArchive (archive.rs). *)

DefaultKey == <<0, 0, 0, 0, 0, 0, 0, 0, 13, 14, 10, 13, 11, 14, 14, 15>>

\* RenpyArchive::version: the first 7 bytes, identified
archive_version(bytes, file_name) ==
    LET header == SubSeq(bytes, 1, Min(7, Len(bytes)))
    IN IF ~IsUtf8(header) THEN Err("Io")
       ELSE LET v == identify(file_name, header)
            IN IF IsSome(v) THEN Ok(v[1]) ELSE Err("IdentifyVersion")

\* The XOR of the hexadecimal subkeys: Some(key), or None when one is malformed
RECURSIVE FoldKeys(_, _)
FoldKeysStep(subkeys, acc, k) ==
    IF IsSome(k) THEN FoldKeys(Tail(subkeys), U64Xor(acc, k[1])) ELSE None
FoldKeys(subkeys, acc) ==
    IF subkeys = <<>> THEN Some(acc)
    ELSE FoldKeysStep(subkeys, acc, FromStrRadix16(Head(subkeys)))

\* from_value over the entries of the raw index: Some(map), or None when one
\* entry is malformed
IndexRecords(recs) ==
    IF \E p \in DOMAIN recs : ~recs[p].ok THEN None
    ELSE Some([p \in DOMAIN recs |-> CRecord(recs[p].v)])
IndexContent(idx, k) == IndexRecords([p \in DOMAIN idx |-> from_value(idx[p], k)])

\* BufRead::read_line: the bytes up to and including the first newline
ReadLine(rest) ==
    IF \E i \in 1..Len(rest) : rest[i] = NL
    THEN SubSeq(rest, 1, CHOOSE i \in 1..Len(rest) :
                            rest[i] = NL /\ \A j \in 1..(i-1) : rest[j] # NL)
    ELSE rest

\* RenpyArchive::metadata on a reader positioned after the signature, in the
\* order of the code.  Err("panic") is an abnormal termination (a slice or an
\* index out of range).
metadata_entries(rd, off, k, entries) ==
    IF ~IsSome(entries) THEN Err("FormatRecord")
    ELSE Ok([offset |-> off, key |-> k, content |-> entries[1], pos |-> Len(rd.bytes)])

metadata_index(rd, off, k, at) ==
    \* nothing is left to read at the offset: zlib yields no bytes, and the
    \* pickle of no bytes does not deserialize
    IF at >= Len(rd.bytes) THEN Err("DeserializeIndex")
    \* the bytes at the offset are no zlib stream
    ELSE IF at # rd.idxpos THEN Err("Io")
    ELSE metadata_entries(rd, off, k, IndexContent(rd.idx, k))

metadata_key(rd, v, off, k) ==
    IF ~IsSome(k) THEN Err("ParseKey")
    ELSE metadata_index(rd, off, IF v \in {"V3_0", "V3_2"} THEN k ELSE None, NatOfU64(off))

\* A mutation of metadata: the subkeys of V3_2 are taken from the same token
\* as those of V3_0.
metadata_offset_SameSubkeys(rd, v, tokens, off) ==
    IF ~IsSome(off) THEN Err("ParseOffset")
    ELSE IF v \in {"V3_0", "V3_2"}
    THEN metadata_key(rd, v, off[1], FoldKeys(SubSeq(tokens, 3, Len(tokens)), U64Zero))
    ELSE metadata_key(rd, v, off[1], Some(U64Zero))

metadata_offset(rd, v, tokens, off) ==
    IF ~IsSome(off) THEN Err("ParseOffset")
    ELSE IF v = "V3_0"
    THEN metadata_key(rd, v, off[1], FoldKeys(SubSeq(tokens, 3, Len(tokens)), U64Zero))
    ELSE IF v = "V3_2"
    THEN IF Len(tokens) < 3 THEN Err("panic")
         ELSE metadata_key(rd, v, off[1], FoldKeys(SubSeq(tokens, 4, Len(tokens)), U64Zero))
    ELSE metadata_key(rd, v, off[1], Some(U64Zero))

metadata_tokens(rd, v, tokens) ==
    IF Len(tokens) < 2 THEN Err("panic")
    ELSE metadata_offset(rd, v, tokens, FromStrRadix16(tokens[2]))

metadata_line(rd, v, first_line) ==
    IF ~IsUtf8(first_line) THEN Err("Io")
    ELSE IF Len(first_line) = 0 THEN Err("panic")
    ELSE metadata_tokens(rd, v, Split(SubSeq(first_line, 1, Len(first_line) - 1)))

metadata(rd, pos, v) == metadata_line(rd, v, ReadLine(SubSeq(rd.bytes, pos + 1, Len(rd.bytes))))

\* RenpyArchive::read (file_name empty) and RenpyArchive::open
read_metadata(v, m) ==
    IF ~m.ok THEN m
    ELSE Ok([offset |-> m.v.offset, key |-> m.v.key, content |-> m.v.content,
             pos |-> m.v.pos, version |-> v])
read_version(rd, v) ==
    IF ~v.ok THEN v ELSE read_metadata(v.v, metadata(rd, Min(7, Len(rd.bytes)), v.v))
read(rd, file_name) == read_version(rd, archive_version(rd.bytes, file_name))

\* The header line flush writes last.
FormatHeader(v, off, k) ==
    IF v = "V3_0"
    THEN Ok(SigV3_0 \o <<SP>> \o FormatHex(off, 16) \o <<SP>> \o FormatHex(k, 8) \o <<NL>>)
    ELSE IF v = "V2_0"
    THEN Ok(SigV2_0 \o <<SP>> \o FormatHex(off, 16) \o <<NL>>)
    ELSE Err("WritingNotSupported")

EmptyIndexes == [q \in {} |-> NoRecord]

\* The copy loop of flush over the entries in iteration order `order`.
\* st: out, the bytes written so far; offset, the running offset; indexes,
\* the new index; rpos, the reader's position; err, the failure if any.
RECURSIVE copy_loop(_, _, _, _, _)
copy_loop_step(ar, order, files, checks, st, c) ==
    IF ~c.res.ok
    THEN [st EXCEPT !.err = Some(c.res.v), !.rpos = c.pos]
    ELSE copy_loop(ar, Tail(order), files, checks,
            [out     |-> st.out \o c.out,
             offset  |-> st.offset + c.res.v,
             indexes |-> MapInsert(st.indexes, ToStringLossy(Head(order)),
                            Record_new(U64OfNat(st.offset), U64OfNat(c.res.v), None, ar.key)),
             rpos    |-> c.pos,
             err     |-> None])
copy_loop(ar, order, files, checks, st) ==
    IF order = <<>> THEN st
    ELSE copy_loop_step(ar, order, files, checks, st,
            copy_to(ar.content[Head(order)], ar.reader.bytes, st.rpos, files, checks))

Flushed(res, s, w, k, r) == [res |-> res, sink |-> s, wpos |-> w, seeks |-> k, rpos |-> r]

\* RenpyArchive::flush of the container `ar` into a fresh writer, in the order
\* of the code: placeholder, copy loop, index, rewind, header.
flush_header(st, idx, all, header) ==
    IF ~header.ok
    THEN Flushed(header, Stream(all, idx, Len(st.out)), 0, 1, st.rpos)
    ELSE Flushed(Ok(0),
                 Stream(Overwrite(all, 0, header.v), idx,
                        \* a header longer than the body overwrites the index
                        IF Len(header.v) > Len(st.out) THEN -1 ELSE Len(st.out)),
                 Len(header.v), 1, st.rpos)

flush_index(ar, st, idx) ==
    flush_header(st, idx, st.out \o IndexBlob(idx),
                 FormatHeader(ar.version, U64OfNat(st.offset),
                              IF IsSome(ar.key) THEN ar.key[1] ELSE U64Zero))

flush_copied(ar, st) ==
    IF IsSome(st.err)
    THEN Flushed(Err(st.err[1]), Stream(st.out, NoIndex, -1), Len(st.out), 0, st.rpos)
    ELSE flush_index(ar, st, [p \in DOMAIN st.indexes |-> into_value(st.indexes[p])])

\* A mutation of flush_placeholder: the placeholder begins with the
\* signature of version 3.0.
flush_placeholder_SignatureFirst(ar, order, files, checks, hl) ==
    IF ~hl.ok THEN Flushed(hl, EmptyStream, 0, 0, ar.rpos)
    ELSE flush_copied(ar, copy_loop(ar, order, files, checks,
                            [out |-> [i \in 1..hl.v |-> IF i <= 7 THEN SigV3_0[i] ELSE 0],
                             offset |-> hl.v,
                             indexes |-> EmptyIndexes, rpos |-> ar.rpos, err |-> None]))

flush_placeholder(ar, order, files, checks, hl) ==
    IF ~hl.ok THEN Flushed(hl, EmptyStream, 0, 0, ar.rpos)
    ELSE flush_copied(ar, copy_loop(ar, order, files, checks,
                            [out |-> [i \in 1..hl.v |-> 0], offset |-> hl.v,
                             indexes |-> EmptyIndexes, rpos |-> ar.rpos, err |-> None]))

flush(ar, order, files, checks) ==
    flush_placeholder(ar, order, files, checks, header_length(ar.version))

\* A mutation of copy_file: a path that is not in the map copies nothing and
\* succeeds.
copy_file_AbsentIsEmpty(m, path, bytes, pos, files, checks) ==
    IF path \in DOMAIN m THEN copy_to(m[path], bytes, pos, files, checks)
    ELSE Copied(Ok(0), <<>>, pos)

\* RenpyArchive::copy_file into a fresh writer
copy_file(m, path, bytes, pos, files, checks) ==
    IF path \in DOMAIN m THEN copy_to(m[path], bytes, pos, files, checks)
    ELSE Copied(Err("NotFound"), <<>>, pos)

----------------------------------------------------------------------------
(* The command line (warpa/src/main.rs). *)

\* From<&WriteVersion> for RpaVersion
WriteVersionInto(w) == IF w = "V3" THEN "V3_0" ELSE "V2_0"
WriteVersionDefault == "V3"

\* CliConfig::update_archive: the version and key of the archive afterwards
update_archive(cfg, v, k) ==
    [version |-> IF IsSome(cfg.write_version) THEN WriteVersionInto(cfg.write_version[1])
                 ELSE IF cfg.override_version THEN WriteVersionInto(WriteVersionDefault)
                 ELSE v,
     key     |-> IF IsSome(cfg.key) THEN Some(cfg.key[1]) ELSE k]

\* Command::Remove up to the flush: the named files are removed, a missing
\* one ending the command with an error, and then the entries are filtered
\* by the pattern. `pattern` is the set of paths Pattern::matches_path
\* accepts, or None without --pattern.
remove_filtered(m, pattern, keep) ==
    IF IsSome(pattern)
    THEN [res |-> Ok(0),
          map |-> [p \in {q \in DOMAIN m : (q \in pattern[1]) # keep} |-> m[p]]]
    ELSE [res |-> Ok(0), map |-> m]
RECURSIVE remove_files(_, _, _, _)
remove_files(m, files, pattern, keep) ==
    IF files = <<>> THEN remove_filtered(m, pattern, keep)
    ELSE IF Head(files) \notin DOMAIN m THEN [res |-> Err("Io"), map |-> m]
    ELSE remove_files([p \in DOMAIN m \ {Head(files)} |-> m[p]], Tail(files), pattern, keep)

\* The characters of a command-line argument.
EQ == "="

\* str::split_once("="): the text before and after the first '=', or None
split_once(s) ==
    IF \E i \in 1..Len(s) : s[i] = EQ
    THEN Some(<<SubSeq(s, 1, (CHOOSE i \in 1..Len(s) :
                                 s[i] = EQ /\ \A j \in 1..(i - 1) : s[j] # EQ) - 1),
                SubSeq(s, (CHOOSE i \in 1..Len(s) :
                                 s[i] = EQ /\ \A j \in 1..(i - 1) : s[j] # EQ) + 1, Len(s))>>)
    ELSE None

\* A mutation of MappedPath_from_str: the argument is split at its last '='.
MappedPath_from_str_Last(s) ==
    IF \E i \in 1..Len(s) : s[i] = EQ
    THEN Ok([key   |-> SubSeq(s, 1, (CHOOSE i \in 1..Len(s) :
                                 s[i] = EQ /\ \A j \in (i + 1)..Len(s) : s[j] # EQ) - 1),
             value |-> Some(SubSeq(s, (CHOOSE i \in 1..Len(s) :
                                 s[i] = EQ /\ \A j \in (i + 1)..Len(s) : s[j] # EQ) + 1, Len(s)))])
    ELSE Ok([key |-> s, value |-> None])

\* MappedPath::from_str
MappedPath_from_str(s) ==
    IF IsSome(split_once(s))
    THEN Ok([key |-> split_once(s)[1][1], value |-> Some(split_once(s)[1][2])])
    ELSE Ok([key |-> s, value |-> None])

\* From<MappedPath> for (PathBuf, PathBuf)
MappedPath_into(mapped) ==
    IF IsSome(mapped.value) THEN <<mapped.key, mapped.value[1]>>
    ELSE <<mapped.key, mapped.key>>

----------------------------------------------------------------------------
(* Inputs of the model. *)

PathPool == <<"a.txt", "x.bin", "b.png">>
Paths == {PathPool[i] : i \in 1..MaxPaths}

\* The buffers handed to insert_raw.
RawData == {<<1, 2, 3>>, <<4>>}
\* The one file of the file system that may exist, and its bytes.
FilePath == "x.bin"
FileData == <<7, 8>>

KeyFF == U64OfNat(255)
KeyBig == <<0, 0, 0, 0, 0, 0, 0, 1, 0, 0, 0, 0, 0, 0, 0, 0>>

\* The index value of an entry at (start, length, prefix) under key k
IndexValue(start, length, prefix, k) ==
    into_value(Record_new(U64OfNat(start), U64OfNat(length), prefix, k))

NameRpa == <<97, 46, 114, 112, 97>>
NameRpi == <<97, 46, 114, 112, 105>>

\* An archive file: header line, body, compressed index.
Archive(name, header, body, idx) ==
    [name   |-> name,
     stream |-> Stream(header \o body \o IndexBlob(idx), idx, Len(header) + Len(body))]

\* A version 3.0 archive under key 0xff: a.txt is a plain range, x.bin a range
\* with a two byte prefix.
ArchiveV3 ==
    LET body == <<10, 11, 12, 13, 14>>
    IN Archive(NameRpa,
               FormatHeader("V3_0", U64OfNat(HeaderLenV3_0 + Len(body)), KeyFF).v, body,
               [p \in {"a.txt", "x.bin"} |->
                   IF p = "a.txt" THEN IndexValue(HeaderLenV3_0, 3, None, Some(KeyFF))
                   ELSE IndexValue(HeaderLenV3_0 + 3, 4, Some(<<9, 9>>), Some(KeyFF))])

\* A version 2.0 archive.
ArchiveV2 ==
    LET body == <<20, 21>>
    IN Archive(NameRpa,
               FormatHeader("V2_0", U64OfNat(HeaderLenV2_0 + Len(body)), U64Zero).v, body,
               [p \in {"a.txt"} |-> IndexValue(HeaderLenV2_0, 2, None, None)])

\* A version 3.2 archive: signature, offset, one unused field, key.
ArchiveV3_2 ==
    LET body == <<30, 31, 32>>
        header == SigV3_2 \o <<SP>> \o FormatHex(U64OfNat(43 + Len(body)), 16) \o <<SP>>
                  \o FormatHex(U64Zero, 8) \o <<SP>> \o FormatHex(KeyFF, 8) \o <<NL>>
    IN Archive(NameRpa, header, body,
               [p \in {"a.txt"} |-> IndexValue(43, 3, None, Some(KeyFF))])

\* A file without signature whose name ends in rpi.
ArchiveRpi ==
    LET body == <<40, 41>>
        header == <<82, 80, 65, 45, 49, 46, 48>> \o <<SP>>
                  \o FormatHex(U64OfNat(HeaderLenV2_0 + Len(body)), 16) \o <<NL>>
    IN Archive(NameRpi, header, body,
               [p \in {"a.txt"} |-> IndexValue(HeaderLenV2_0, 2, None, None)])

\* A version 2.0 archive whose entry for a.txt records a length shorter than
\* its prefix, and whose entry for x.bin carries a second outer element.
ArchiveOdd ==
    LET body == <<50, 51>>
    IN Archive(NameRpa,
               FormatHeader("V2_0", U64OfNat(HeaderLenV2_0 + Len(body)), U64Zero).v, body,
               [p \in {"a.txt", "x.bin"} |->
                   IF p = "a.txt" THEN IndexValue(HeaderLenV2_0, 1, Some(<<9, 9, 9>>), None)
                   ELSE VList(<<VList(<<VI64(AsI64(U64OfNat(HeaderLenV2_0))),
                                        VI64(AsI64(U64OfNat(2)))>>),
                                VNone>>)])

\* A version 2.0 archive with an entry that is no list.
ArchiveBad ==
    Archive(NameRpa, FormatHeader("V2_0", U64OfNat(HeaderLenV2_0), U64Zero).v, <<>>,
            [p \in {"a.txt"} |-> VString])

Sources == <<ArchiveV3, ArchiveV2, ArchiveV3_2, ArchiveRpi, ArchiveOdd, ArchiveBad>>

\* The command lines: --key, --write-version, --override-version.
CliKeys == {None, Some(KeyBig)}
CliConfigs == [key : CliKeys, write_version : {None, Some("V3"), Some("V2")},
               override_version : BOOLEAN]

\* The orders in which a HashMap of the keys S may be iterated.
Orders(S) == {o \in [1..Cardinality(S) -> S] : \A i, j \in 1..Cardinality(S) :
                                                  i # j => o[i] # o[j]}

----------------------------------------------------------------------------
(* The state machine of one container. *)

Outcome(op, ok, err, out, n, path) ==
    [op |-> op, ok |-> ok, err |-> err, out |-> out, n |-> n, path |-> path]
NoOutcome == Outcome("none", TRUE, "", <<>>, 0, "")

Container(rd, rp, k, v, c, files) ==
    [reader |-> rd, rpos |-> rp, key |-> k, version |-> v, content |-> c, fs |-> files,
     order |-> <<>>]
NoContainer == Container(EmptyStream, 0, None, "V3_0", EmptyMap, EmptyMap)

NoCall == [fn |-> "none"]
NotCalled == [fn |-> "none"]
\* No extraction and no replacement is under way.
NoWorkers == [pc |-> "none"]
NoCli == [pc |-> "none"]

ArchiveInit ==
    /\ state = "unopened"
    /\ reader = EmptyStream
    /\ rpos = 0
    /\ key = None
    /\ offset = U64Zero
    /\ version = "V3_0"
    /\ content = EmptyMap
    /\ sink = EmptyStream
    /\ wpos = 0
    /\ seeks = 0
    /\ fs = EmptyMap
    /\ result = NoOutcome
    /\ pre = NoContainer
    /\ inserts = 0

Init == ArchiveInit /\ call = NoCall /\ ret = NotCalled /\ workers = NoWorkers /\ cli = NoCli

\* RenpyArchive::new()
New ==
    /\ state = "unopened"
    /\ state' = "open"
    /\ reader' = EmptyStream
    /\ rpos' = 0
    /\ key' = Some(DefaultKey)
    /\ offset' = U64Zero
    /\ version' = "V3_0"
    /\ content' = EmptyMap
    /\ result' = Outcome("new", TRUE, "", <<>>, 0, "")
    /\ UNCHANGED <<sink, wpos, seeks, fs, pre, inserts, call, ret, workers, cli>>

\* The container that read() returned as r, or its error.
Constructed(op, rd, r) ==
    IF r.ok
    THEN /\ state' = IF op = "reopen" THEN "readback" ELSE "open"
         /\ reader' = rd
         /\ rpos' = r.v.pos
         /\ key' = r.v.key
         /\ offset' = r.v.offset
         /\ version' = r.v.version
         /\ content' = r.v.content
              /\ result' = Outcome(op, TRUE, "", <<>>, 0, "")
    ELSE /\ result' = Outcome(op, FALSE, r.v, <<>>, 0, "")
         /\ UNCHANGED <<state, reader, rpos, key, offset, version, content>>
Construct(op, rd, file_name) == Constructed(op, rd, read(rd, file_name))

\* RenpyArchive::open(path) of an archive file, or read(reader) of its bytes
Open ==
    /\ state = "unopened"
    /\ \E i \in 1..Len(Sources), by_name \in BOOLEAN :
          Construct("open", Sources[i].stream, IF by_name THEN Sources[i].name ELSE <<>>)
    /\ UNCHANGED <<sink, wpos, seeks, fs, pre, inserts, call, ret, workers, cli>>

\* RenpyArchive::read of what flush wrote.  The container read back is
\* only materialized.
Reopen ==
    /\ state = "flushed"
    /\ Construct("reopen", sink, <<>>)
    /\ sink' = IF result'.ok THEN EmptyStream ELSE sink
    /\ wpos' = IF result'.ok THEN 0 ELSE wpos
    /\ seeks' = IF result'.ok THEN 0 ELSE seeks
    /\ UNCHANGED <<fs, pre, inserts, call, ret, workers, cli>>

\* CliConfig::update_archive, which the command line applies to the archive
\* it has just opened or created
UpdateArchive ==
    /\ state = "open"
    /\ result.op \in {"new", "open"}
    /\ \E cfg \in CliConfigs :
          /\ version' = update_archive(cfg, version, key).version
          /\ key' = update_archive(cfg, version, key).key
    /\ result' = Outcome("update", TRUE, "", <<>>, 0, "")
    /\ UNCHANGED <<state, reader, rpos, offset, content, sink, wpos, seeks, fs, pre,
                   inserts, call, ret, workers, cli>>

\* ContentMap::insert_raw
InsertRaw ==
    /\ state = "open"
    /\ inserts < MaxInserts
    /\ \E p \in Paths, d \in RawData : content' = insert_raw(content, p, d).map
    /\ inserts' = inserts + 1
    /\ result' = Outcome("insert", TRUE, "", <<>>, 0, "")
    /\ UNCHANGED <<state, reader, rpos, key, offset, version, sink, wpos, seeks, fs, pre,
                   call, ret, workers, cli>>

\* ContentMap::insert_file
InsertFile ==
    /\ state = "open"
    /\ inserts < MaxInserts
    /\ \E p \in Paths : content' = insert_file(content, p).map
    /\ inserts' = inserts + 1
    /\ result' = Outcome("insert", TRUE, "", <<>>, 0, "")
    /\ UNCHANGED <<state, reader, rpos, key, offset, version, sink, wpos, seeks, fs, pre,
                   call, ret, workers, cli>>

\* The environment creates or removes the file an entry refers to.
FileChange ==
    /\ state = "open"
    /\ \E p \in DOMAIN content : content[p].kind = "File"
    /\ fs' = IF FilePath \in DOMAIN fs THEN EmptyMap
             ELSE [q \in {FilePath} |-> FileData]
    /\ UNCHANGED <<state, reader, rpos, key, offset, version, content, sink, wpos, seeks,
                   result, pre, inserts, call, ret, workers, cli>>

\* The builds that behave differently on the content: with and without
\* overflow checks when a record's length is shorter than its prefix.
Builds(m) ==
    IF \E p \in DOMAIN m : m[p].kind = "Record"
                           /\ NatOfU64(m[p].rec.length) < PrefixLen(m[p].rec)
    THEN BOOLEAN ELSE {TRUE}

\* RenpyArchive::copy_file(path, writer) into a fresh writer
CopiedFile(p, c) ==
    /\ rpos' = c.pos
    /\ result' = Outcome("copy", c.res.ok, IF c.res.ok THEN "" ELSE c.res.v,
                         c.out, IF c.res.ok THEN c.res.v ELSE 0, p)
CopyFile ==
    /\ state \in {"open", "readback"}
    /\ \E p \in Paths, checks \in Builds(content) :
          CopiedFile(p, copy_file(content, p, reader.bytes, rpos, fs, checks))
    /\ UNCHANGED <<state, reader, key, offset, version, content, sink, wpos, seeks, fs, pre,
                   inserts, call, ret, workers, cli>>

\* A mutation of flush_self: flush borrows the container and leaves it as it was.
flush_self_Borrowed(st) == st

\* flush takes `mut self`: the lifetime of the container once flush has been
\* called on it, whatever flush returns.
flush_self(st) == "flushed"

\* RenpyArchive::flush(writer), which consumes the container.
FlushedInto(f) ==
    /\ sink' = f.sink
    /\ wpos' = f.wpos
    /\ seeks' = f.seeks
    /\ rpos' = f.rpos
    /\ result' = Outcome("flush", f.res.ok, IF f.res.ok THEN "" ELSE f.res.v, <<>>, 0, "")
Flush ==
    /\ state = "open"
    /\ \E order \in Orders(DOMAIN content), checks \in Builds(content) :
          /\ FlushedInto(flush(Container(reader, rpos, key, version, content, fs),
                               order, fs, checks))
          /\ pre' = [Container(reader, rpos, key, version, content, fs)
                        EXCEPT !.order = order]
    /\ state' = flush_self(state)
    /\ UNCHANGED <<reader, key, offset, version, content, fs, inserts, call, ret, workers, cli>>

Next ==
    \/ New
    \/ Open
    \/ Reopen
    \/ UpdateArchive
    \/ InsertRaw
    \/ InsertFile
    \/ FileChange
    \/ CopyFile
    \/ Flush

Spec == Init /\ [][Next]_vars

----------------------------------------------------------------------------
(* The pure functions, each applied to an argument drawn in the initial     *)
(* state.                                                                   *)

\* u64 values: the boundaries, a value of 8 hexadecimal digits and one of 9.
U64Samples == {U64Zero, U64OfNat(10), KeyFF, DefaultKey, KeyBig, U64Max}
Prefixes == {None, Some(<<>>), Some(<<9, 9>>)}

\* The sequences over S of length 0..n
SeqsUpTo(S, n) == UNION {[1..m -> S] : m \in 0..n}

\* The elements of the pickled values: integers (one negative), bytes, None
ValueElems == {VI64(AsI64(U64OfNat(1))), VI64(AsI64(U64Max)), VBytes(<<9, 9>>), VNone}
InnerValues == {VList(l) : l \in SeqsUpTo(ValueElems, MaxInner)} \cup {VNone}
MoreValues == {VNone, VList(<<VI64(AsI64(U64OfNat(3))), VI64(AsI64(U64OfNat(4)))>>)}
PickleValues ==
    {VNone, VString, VI64(AsI64(U64OfNat(1))), VBytes(<<9, 9>>)}
    \cup {VList(<<x>> \o rest) : x \in InnerValues, rest \in SeqsUpTo(MoreValues, MaxOuter - 1)}
    \cup {VList(<<>>)}

\* The readers: n bytes 1, 2, .., n
Readers == {[i \in 1..n |-> i] : n \in 0..MaxReaderLen}
RecordSamples == {[start |-> s, length |-> l, prefix |-> p] :
                     s \in {U64Zero, U64OfNat(2), U64Max},
                     l \in {U64Zero, U64OfNat(1), U64OfNat(3), U64OfNat(5), U64Max},
                     p \in Prefixes}

\* File names, and the first bytes of a stream (7 of them, or fewer when the
\* stream is shorter): the three signatures and texts that are none of them.
FileNames == {<<>>, NameRpa, NameRpi, <<114, 112, 105>>, <<112, 105>>}
HeaderSamples == {SigV3_2, SigV3_0, SigV2_0,
                  <<82, 80, 65, 45, 49, 46, 48>>, <<82, 80, 65, 45, 51, 46, 49>>,
                  <<114, 112, 97, 45, 51, 46, 48>>, <<82, 80, 65>>, <<>>}

\* The tokens of a first line: the text, and the u64 it stands for in
\* hexadecimal (None when it stands for none).
Token(text, val) == [text |-> text, val |-> val]
TokenSamples == {Token(FormatHex(KeyFF, 8), Some(KeyFF)),
                 Token(<<70, 70>>, Some(KeyFF)),
                 Token(FormatHex(DefaultKey, 8), Some(DefaultKey)),
                 Token(FormatHex(KeyBig, 8), Some(KeyBig)),
                 Token(<<120, 121>>, None),
                 Token(<<>>, None)}
RECURSIVE JoinTokens(_)
JoinTokens(ts) ==
    IF ts = <<>> THEN <<>> ELSE <<SP>> \o Head(ts).text \o JoinTokens(Tail(ts))

\* The signatures with the file name under which each is opened.
Signed == {[sig |-> SigV3_2, name |-> <<>>], [sig |-> SigV3_0, name |-> <<>>],
           [sig |-> SigV2_0, name |-> NameRpa],
           [sig |-> <<82, 80, 65, 45, 49, 46, 48>>, name |-> NameRpi]}

\* An archive whose first line is the signature, then (unless off = "none")
\* a space and the offset token, then the tokens ts, each after a space, and
\* whose line ends with a newline followed by two bytes and the index table,
\* or (nl false) with the end of the stream.  The offset token is the
\* position of the index table ("good"), no hexadecimal number ("bad") or
\* empty ("empty").
LineArchive(sig, off, ts, nl) ==
    LET idx == [p \in {"a.txt"} |-> IndexValue(0, 2, None, None)]
        at == Len(sig) + 1 + 16 + Len(JoinTokens(ts)) + 1 + 2
        offtext == IF off = "good" THEN FormatHex(U64OfNat(at), 16)
                   ELSE IF off = "bad" THEN <<111, 102, 102>>
                   ELSE <<>>
        line == IF off = "none" THEN <<>> ELSE <<SP>> \o offtext \o JoinTokens(ts)
    IN IF nl THEN Stream(sig \o line \o <<NL, 1, 2>> \o IndexBlob(idx), idx,
                         Len(sig) + Len(line) + 3)
       ELSE Stream(sig \o line, NoIndex, -1)

\* The content maps over the paths: each path absent, or an in-memory
\* buffer, a file reference or an archive record.
ContentSamples == {CRaw(<<1, 2, 3>>), CFile(FilePath),
                   CRecord([start |-> U64OfNat(2), length |-> U64OfNat(3), prefix |-> None])}
MapSamples == UNION {[S -> ContentSamples] : S \in SUBSET Paths}

\* The arguments of --pattern, as the paths they match, and the command-line
\* arguments of a mapped path.
PatternSamples == {None} \cup {Some(S) : S \in SUBSET Paths}
ArgChars == {"a", "/", EQ}
ArgSamples == SeqsUpTo(ArgChars, MaxArgLen)

InitPure ==
    /\ ArchiveInit
    /\ ret = NotCalled
    /\ workers = NoWorkers
    /\ cli = NoCli
    /\ \/ \E s \in U64Samples, l \in U64Samples, p \in Prefixes,
             k \in {None} \cup {Some(x) : x \in U64Samples} :
             call = [fn |-> "Record_new", start |-> s, length |-> l, prefix |-> p, key |-> k]
       \/ \E v \in PickleValues, k \in {None, Some(KeyFF)} :
             call = [fn |-> "from_value", value |-> v, key |-> k]
       \/ \E r \in RecordSamples, b \in Readers, checks \in BOOLEAN :
             call = [fn |-> "copy_section", record |-> r, reader |-> b, checks |-> checks]
       \/ \E v \in Versions, o \in U64Samples, k \in U64Samples :
             call = [fn |-> "FormatHeader", version |-> v, offset |-> o, key |-> k]
       \/ \E v \in Versions : call = [fn |-> "header_length", version |-> v]
       \/ \E m \in MapSamples, p \in Paths :
             call = [fn |-> "insert_file", map |-> m, path |-> p]
       \/ \E m \in MapSamples, p \in Paths, f \in Paths :
             call = [fn |-> "insert_file_mapped", map |-> m, archive_path |-> p,
                     file_path |-> f]
       \/ \E m \in MapSamples, p \in Paths, b \in RawData :
             call = [fn |-> "insert_raw", map |-> m, path |-> p, bytes |-> b]
       \/ \E m \in MapSamples, o \in Paths, n \in Paths :
             call = [fn |-> "rename_key", map |-> m, old_path |-> o, new_path |-> n]
       \/ \E sg \in Signed, off \in {"good", "bad", "empty", "none"},
             ts \in SeqsUpTo(TokenSamples, MaxSubkeys), nl \in BOOLEAN :
             /\ off = "none" => ts = <<>>
             /\ call = [fn |-> "read", sig |-> sg.sig, file_name |-> sg.name, off |-> off,
                        tokens |-> ts, nl |-> nl,
                        reader |-> LineArchive(sg.sig, off, ts, nl)]
       \/ \E n \in FileNames, h \in HeaderSamples :
             call = [fn |-> "identify", file_name |-> n, header |-> h]
       \/ \E m \in MapSamples, fl \in SeqsUpTo(Paths, MaxFiles), pt \in PatternSamples,
             keep \in BOOLEAN :
             call = [fn |-> "remove", map |-> m, files |-> fl, pattern |-> pt, keep |-> keep]
       \/ \E cfg \in CliConfigs, v \in Versions, k \in {None, Some(DefaultKey)} :
             call = [fn |-> "update_archive", cfg |-> cfg, version |-> v, key |-> k]
       \/ \E a \in ArgSamples : call = [fn |-> "MappedPath", s |-> a]
       \/ \E st \in U64Samples, l \in U64Samples, p \in Prefixes :
             call = [fn |-> "into_value",
                     record |-> [start |-> st, length |-> l, prefix |-> p]]

Returned(v) == [fn |-> call.fn, v |-> v]

ApplyRecordNew ==
    /\ call.fn = "Record_new" /\ ret = NotCalled
    /\ ret' = Returned(Record_new(call.start, call.length, call.prefix, call.key))
    /\ UNCHANGED <<archiveVars, call, workers, cli>>

ApplyFromValue ==
    /\ call.fn = "from_value" /\ ret = NotCalled
    /\ ret' = Returned(from_value(call.value, call.key))
    /\ UNCHANGED <<archiveVars, call, workers, cli>>

ApplyCopySection ==
    /\ call.fn = "copy_section" /\ ret = NotCalled
    /\ ret' = Returned(copy_section(call.record, call.reader, 0, call.checks))
    /\ UNCHANGED <<archiveVars, call, workers, cli>>

ApplyFormatHeader ==
    /\ call.fn = "FormatHeader" /\ ret = NotCalled
    /\ ret' = Returned(FormatHeader(call.version, call.offset, call.key))
    /\ UNCHANGED <<archiveVars, call, workers, cli>>

\* RpaVersion::identify, and RenpyArchive::version on a stream that begins
\* with the header
ApplyIdentify ==
    /\ call.fn = "identify" /\ ret = NotCalled
    /\ ret' = [fn |-> call.fn, v |-> identify(call.file_name, call.header),
               version |-> archive_version(call.header, call.file_name)]
    /\ UNCHANGED <<archiveVars, call, workers, cli>>

\* RpaVersion::header_length and Version::write_support
ApplyHeaderLength ==
    /\ call.fn = "header_length" /\ ret = NotCalled
    /\ ret' = [fn |-> call.fn, v |-> header_length(call.version),
               write_support |-> write_support(call.version)]
    /\ UNCHANGED <<archiveVars, call, workers, cli>>

\* RenpyArchive::read, or RenpyArchive::open under a file name
ApplyRead ==
    /\ call.fn = "read" /\ ret = NotCalled
    /\ ret' = Returned(read(call.reader, call.file_name))
    /\ UNCHANGED <<archiveVars, call, workers, cli>>

\* ContentMap::insert_file, insert_file_mapped, insert_raw, rename_key
ApplyInsertFile ==
    /\ call.fn = "insert_file" /\ ret = NotCalled
    /\ ret' = Returned(insert_file(call.map, call.path))
    /\ UNCHANGED <<archiveVars, call, workers, cli>>

ApplyInsertFileMapped ==
    /\ call.fn = "insert_file_mapped" /\ ret = NotCalled
    /\ ret' = Returned(insert_file_mapped(call.map, call.archive_path, call.file_path))
    /\ UNCHANGED <<archiveVars, call, workers, cli>>

ApplyInsertRaw ==
    /\ call.fn = "insert_raw" /\ ret = NotCalled
    /\ ret' = Returned(insert_raw(call.map, call.path, call.bytes))
    /\ UNCHANGED <<archiveVars, call, workers, cli>>

ApplyRenameKey ==
    /\ call.fn = "rename_key" /\ ret = NotCalled
    /\ ret' = Returned(rename_key(call.map, call.old_path, call.new_path))
    /\ UNCHANGED <<archiveVars, call, workers, cli>>

\* Command::Remove on the content map of the archive it opened
ApplyRemove ==
    /\ call.fn = "remove" /\ ret = NotCalled
    /\ ret' = Returned(remove_files(call.map, call.files, call.pattern, call.keep))
    /\ UNCHANGED <<archiveVars, call, workers, cli>>

\* CliConfig::update_archive
ApplyUpdateArchive ==
    /\ call.fn = "update_archive" /\ ret = NotCalled
    /\ ret' = Returned(update_archive(call.cfg, call.version, call.key))
    /\ UNCHANGED <<archiveVars, call, workers, cli>>

\* str::parse::<MappedPath> and the conversion into a pair of paths
ApplyMappedPath ==
    /\ call.fn = "MappedPath" /\ ret = NotCalled
    /\ ret' = Returned([parsed |-> MappedPath_from_str(call.s),
                        pair   |-> MappedPath_into(MappedPath_from_str(call.s).v)])
    /\ UNCHANGED <<archiveVars, call, workers, cli>>

\* Record::into_value, and Record::from_value of the value it returns
ApplyIntoValue ==
    /\ call.fn = "into_value" /\ ret = NotCalled
    /\ ret' = Returned([value |-> into_value(call.record),
                        back  |-> from_value(into_value(call.record), None)])
    /\ UNCHANGED <<archiveVars, call, workers, cli>>

NextPure ==
    \/ ApplyRecordNew
    \/ ApplyFromValue
    \/ ApplyCopySection
    \/ ApplyFormatHeader
    \/ ApplyIdentify
    \/ ApplyHeaderLength
    \/ ApplyRead
    \/ ApplyInsertFile
    \/ ApplyInsertFileMapped
    \/ ApplyInsertRaw
    \/ ApplyRenameKey
    \/ ApplyRemove
    \/ ApplyUpdateArchive
    \/ ApplyMappedPath
    \/ ApplyIntoValue

SpecPure == InitPure /\ [][NextPure]_vars

----------------------------------------------------------------------------
(* The archive of the scenario: the header of a version 3.0 archive with    *)
(* offset 0x22 and key 0xff, the index table {"a.txt": [[0, 10]]} at that   *)
(* offset, and n bytes after it.                                            *)

ScenarioHeader == FormatHeader("V3_0", U64OfNat(HeaderLenV3_0), KeyFF).v
ScenarioIndex == [p \in {"a.txt"} |->
                    VList(<<VList(<<VI64(AsI64(U64Zero)), VI64(AsI64(U64OfNat(10)))>>)>>)]
ScenarioArchive(n) ==
    Stream(ScenarioHeader \o IndexBlob(ScenarioIndex) \o [i \in 1..n |-> i % 100],
           ScenarioIndex, Len(ScenarioHeader))

InitScenario ==
    /\ state = "unopened"
    /\ reader \in {ScenarioArchive(n) : n \in 0..MaxTrailing}
    /\ rpos = 0
    /\ key = None
    /\ offset = U64Zero
    /\ version = "V3_0"
    /\ content = EmptyMap
    /\ sink = EmptyStream
    /\ wpos = 0
    /\ seeks = 0
    /\ fs = EmptyMap
    /\ result = NoOutcome
    /\ pre = NoContainer
    /\ inserts = 0
    /\ call = NoCall
    /\ ret = NotCalled
    /\ workers = NoWorkers
    /\ cli = NoCli

\* RenpyArchive::read of the scenario's archive
OpenScenario ==
    /\ state = "unopened"
    /\ Construct("open", reader, <<>>)
    /\ UNCHANGED <<sink, wpos, seeks, fs, pre, inserts, call, ret, workers, cli>>

NextScenario ==
    \/ OpenScenario
    \/ CopyFile

SpecScenario == InitScenario /\ [][NextScenario]_vars

----------------------------------------------------------------------------
(* Threaded extraction (warpa/src/extract.rs): the entries of one archive  *)
(* held in a memory map are handed to workers, each with a cursor of its   *)
(* own over the map.  A step of a worker is one call on its cursor or on   *)
(* the file it writes.                                                     *)

\* A worker without an entry; its cursor stands where Cursor::new or the
\* last entry left it.
WorkerIdle(pos) == [pc |-> "idle", path |-> "", pos |-> pos, left |-> 0]

\* extract_archive_threaded over the map `bytes` and the entries `m`
Pool(bytes, m, checks) ==
    [pc |-> "run", source |-> bytes, content |-> m, checks |-> checks,
     queue |-> DOMAIN m,
     cur |-> [w \in 1..NWorkers |-> WorkerIdle(0)],
     out |-> [p \in DOMAIN m |-> <<>>],
     res |-> [p \in DOMAIN m |-> "none"]]

\* A mutation of cursor: the workers read through the cursor of the first.
cursor_Shared(ws, w) == ws.cur[1].pos

\* The position of the cursor map_init gave worker w.
cursor(ws, w) == ws.cur[w].pos

InitWorkers ==
    /\ ArchiveInit
    /\ call = NoCall
    /\ ret = NotCalled
    /\ cli = NoCli
    /\ \E i \in 1..Len(Sources) :
          /\ read(Sources[i].stream, Sources[i].name).ok
          /\ \E checks \in Builds(read(Sources[i].stream, Sources[i].name).v.content) :
                workers = Pool(Sources[i].stream.bytes,
                               read(Sources[i].stream, Sources[i].name).v.content, checks)

\* A worker is given an entry: extract_content creates the output file.
TakeEntry ==
    /\ workers.pc = "run"
    /\ \E w \in 1..NWorkers, p \in workers.queue :
          /\ workers.cur[w].pc = "idle"
          /\ workers' = [workers EXCEPT !.queue = @ \ {p},
                                        !.cur[w].pc = "seek",
                                        !.cur[w].path = p]
    /\ UNCHANGED <<archiveVars, call, ret, cli>>

\* Record::scope: seek(Start(start)) and take(actual_length)
Sought(w, p, sc) ==
    IF sc.ok
    THEN workers' = [workers EXCEPT !.cur[w].pc = "prefix",
                                    !.cur[w].pos = sc.v.pos,
                                    !.cur[w].left = sc.v.limit]
    ELSE workers' = [workers EXCEPT !.cur[w] = WorkerIdle(cursor(workers, w)),
                                    !.res[p] = sc.v]
SeekEntry ==
    /\ workers.pc = "run"
    /\ \E w \in 1..NWorkers :
          /\ workers.cur[w].pc = "seek"
          /\ Sought(w, workers.cur[w].path,
                    scope(workers.content[workers.cur[w].path].rec, workers.checks))
    /\ UNCHANGED <<archiveVars, call, ret, cli>>

\* Record::copy_section: write_all(prefix)
WritePrefix ==
    /\ workers.pc = "run"
    /\ \E w \in 1..NWorkers :
          /\ workers.cur[w].pc = "prefix"
          /\ workers' = [workers EXCEPT
                !.cur[w].pc = "copy",
                !.out[workers.cur[w].path] =
                    @ \o (IF IsSome(workers.content[workers.cur[w].path].rec.prefix)
                          THEN workers.content[workers.cur[w].path].rec.prefix[1]
                          ELSE <<>>)]
    /\ UNCHANGED <<archiveVars, call, ret, cli>>

\* io::copy: one read through the worker's cursor and the write of what it
\* yielded; a read that yields nothing ends the copy.
ChunkRead(w, p, chunk) ==
    IF chunk = <<>>
    THEN workers' = [workers EXCEPT !.cur[w] = WorkerIdle(cursor(workers, w)),
                                    !.res[p] = "ok"]
    ELSE workers' = [workers EXCEPT
            !.out[p] = @ \o chunk,
            !.cur[w].pos = cursor(workers, w) + Len(chunk),
            !.cur[w].left = IF @ = Huge THEN Huge ELSE @ - Len(chunk)]
ReadChunk ==
    /\ workers.pc = "run"
    /\ \E w \in 1..NWorkers :
          /\ workers.cur[w].pc = "copy"
          /\ ChunkRead(w, workers.cur[w].path,
                       TakeFrom(workers.source, cursor(workers, w),
                                Min(workers.cur[w].left, ChunkLen)))
    /\ UNCHANGED <<archiveVars, call, ret, cli>>

NextWorkers ==
    \/ TakeEntry
    \/ SeekEntry
    \/ WritePrefix
    \/ ReadChunk

SpecWorkers == InitWorkers /\ [][NextWorkers]_vars

----------------------------------------------------------------------------
(* Replacing an archive (warpa/src/main.rs): the commands that change an   *)
(* archive flush it into a temporary file next to it and rename that file  *)
(* over the archive.  `cli.disk` holds the files that exist, by path.      *)

\* temp_scope: the archive's path with ".temp" pushed onto its file name
temp_path(path) == path \o <<46, 116, 101, 109, 112>>

\* The container a command has opened from `src` and changed: the command
\* line's version and key, and one more entry or none.
Changed(src, r, cfg, added, files) ==
    [Container(src.stream, r.pos, update_archive(cfg, r.version, r.key).key,
               update_archive(cfg, r.version, r.key).version,
               IF added = "raw" THEN insert_raw(r.content, FilePath, FileData).map
               ELSE IF added = "file" THEN insert_file(r.content, FilePath).map
               ELSE r.content,
               files)
     EXCEPT !.order = <<>>]

\* The files when the command begins: the archive, and a file left at the
\* temporary path when `stale`.
DiskAt(src, stale) ==
    IF stale THEN [q \in {src.name, temp_path(src.name)} |->
                      IF q = src.name THEN src.stream ELSE EmptyStream]
    ELSE [q \in {src.name} |-> src.stream]

Replacing(src, ar, order, checks, stale) ==
    [pc |-> "create", path |-> src.name, disk |-> DiskAt(src, stale),
     ar |-> [ar EXCEPT !.order = order], checks |-> checks,
     orig |-> src.stream, written |-> EmptyStream, flushed |-> "none",
     res |-> Ok(0), removal |-> FALSE]

InitReplaceFrom(src, r) ==
    /\ r.ok
    /\ \E cfg \in CliConfigs, added \in {"none", "raw", "file"},
          files \in {EmptyMap, [q \in {FilePath} |-> FileData]}, stale \in BOOLEAN :
          \E order \in Orders(DOMAIN Changed(src, r.v, cfg, added, files).content),
             checks \in Builds(Changed(src, r.v, cfg, added, files).content) :
             cli = Replacing(src, Changed(src, r.v, cfg, added, files), order, checks, stale)

InitReplace ==
    /\ ArchiveInit
    /\ call = NoCall
    /\ ret = NotCalled
    /\ workers = NoWorkers
    /\ \E i \in 1..Len(Sources) :
          InitReplaceFrom(Sources[i], read(Sources[i].stream, Sources[i].name))

\* HashMap-like view of the files: the file at path q is created or replaced
FileWritten(disk, q, stream) ==
    [x \in DOMAIN disk \cup {q} |-> IF x = q THEN stream ELSE disk[x]]
FileRemoved(disk, q) == [x \in DOMAIN disk \ {q} |-> disk[x]]

\* replace_archive: File::create(temp_path), which may fail
CreateTemp ==
    /\ cli.pc = "create"
    /\ \/ cli' = [cli EXCEPT !.pc = "flush",
                             !.disk = FileWritten(@, temp_path(cli.path), EmptyStream)]
       \/ cli' = [cli EXCEPT !.pc = "cleanup", !.res = Err("Io")]
    /\ UNCHANGED <<archiveVars, call, ret, workers>>

\* A mutation of after_flush: the temporary file is renamed whatever flush
\* returned.
after_flush_RenameAlways(res) ==
    IF ~res.ok /\ res.v = "panic" THEN "aborted" ELSE "rename"

\* replace_archive: `archive.flush(&mut temp_file)?` goes on to the rename
\* only when flush returned Ok; a panic unwinds through temp_scope.
after_flush(res) ==
    IF res.ok THEN "rename"
    ELSE IF res.v = "panic" THEN "aborted"
    ELSE "cleanup"

\* replace_archive: archive.flush(&mut temp_file)
FlushedTemp(f) ==
    cli' = [cli EXCEPT !.pc = after_flush(f.res),
                       !.disk = FileWritten(@, temp_path(cli.path), f.sink),
                       !.written = f.sink,
                       !.flushed = IF f.res.ok THEN "ok" ELSE "err",
                       !.res = IF f.res.ok THEN Ok(0) ELSE f.res]
FlushTemp ==
    /\ cli.pc = "flush"
    /\ FlushedTemp(flush(cli.ar, cli.ar.order, cli.ar.fs, cli.checks))
    /\ UNCHANGED <<archiveVars, call, ret, workers>>

\* replace_archive: fs::rename(temp_path, path), which may fail
RenameTemp ==
    /\ cli.pc = "rename"
    /\ \/ cli' = [cli EXCEPT !.pc = "cleanup",
                             !.disk = FileRemoved(
                                 FileWritten(@, cli.path, cli.disk[temp_path(cli.path)]),
                                 temp_path(cli.path))]
       \/ cli' = [cli EXCEPT !.pc = "cleanup", !.res = Err("Io")]
    /\ UNCHANGED <<archiveVars, call, ret, workers>>

\* temp_scope: a temporary file that exists is removed, which may fail, and
\* the result of replace_archive is returned.
RemoveTemp ==
    /\ cli.pc = "cleanup"
    /\ IF temp_path(cli.path) \in DOMAIN cli.disk
       THEN \/ cli' = [cli EXCEPT !.pc = "returned",
                                  !.disk = FileRemoved(@, temp_path(cli.path))]
            \/ cli' = [cli EXCEPT !.pc = "returned", !.res = Err("Io"), !.removal = TRUE]
       ELSE cli' = [cli EXCEPT !.pc = "returned"]
    /\ UNCHANGED <<archiveVars, call, ret, workers>>

NextReplace ==
    \/ CreateTemp
    \/ FlushTemp
    \/ RenameTemp
    \/ RemoveTemp

SpecReplace == InitReplace /\ [][NextReplace]_vars

----------------------------------------------------------------------------
(* Properties. *)

\* The flush of the container `pre` succeeded.
PreFlushOk == flush(pre, pre.order, pre.fs, TRUE).res.ok

\* The bytes copy_file yields for path p of the open container.
Materialized(p) == copy_file(content, p, reader.bytes, rpos, fs, TRUE)

\* C1 (round trip): a container made by new(), holding only in-memory buffers
\* and written as V2_0 or V3_0, when flushed into a fresh sink and read back,
\* has exactly the same paths, and every path materializes to the bytes that
\* were inserted.
C1_RoundTrip ==
    (/\ result.op = "reopen"
     /\ pre.reader = EmptyStream
     /\ pre.key = Some(DefaultKey)
     /\ pre.version \in {"V2_0", "V3_0"}
     /\ \A p \in DOMAIN pre.content : pre.content[p].kind = "Raw"
     /\ PreFlushOk)
    => /\ result.ok
       /\ DOMAIN content = DOMAIN pre.content
       /\ \A p \in DOMAIN pre.content :
             /\ Materialized(p).res.ok
             /\ Materialized(p).out = pre.content[p].data

\* C2 (prefix bake-in): after a flush, for every Record entry of the flushed
\* container with a non-empty prefix p and payload d, the output holds p
\* followed by d at the start offset of the new index entry, which has no
\* prefix and records the length |p| + |d|.
C2_PrefixBakeIn ==
    (result.op = "flush" /\ result.ok) =>
        \A q \in DOMAIN pre.content :
            (/\ pre.content[q].kind = "Record"
             /\ PrefixLen(pre.content[q].rec) > 0
             /\ NatOfU64(pre.content[q].rec.length) >= PrefixLen(pre.content[q].rec))
            => LET r == pre.content[q].rec
                   d == SubSeq(pre.reader.bytes, NatOfU64(r.start) + 1,
                               Min(Len(pre.reader.bytes),
                                   NatOfU64(r.start) + NatOfU64(r.length) - PrefixLen(r)))
                   n == from_value(sink.idx[q], pre.key)
               IN /\ n.ok
                  /\ n.v.prefix = None
                  /\ NatOfU64(n.v.length) = PrefixLen(r) + Len(d)
                  /\ SubSeq(sink.bytes, NatOfU64(n.v.start) + 1,
                            NatOfU64(n.v.start) + PrefixLen(r) + Len(d)) = r.prefix[1] \o d

\* C3 (header length): for V3_0 and V2_0, every offset and every key, the
\* header line flush formats is exactly header_length() bytes long.
C3_HeaderLength ==
    (call.fn = "FormatHeader" /\ ret.fn = "FormatHeader"
     /\ call.version \in {"V3_0", "V2_0"})
    => /\ ret.v.ok
       /\ header_length(call.version).ok
       /\ Len(ret.v.v) = header_length(call.version).v

\* C4 (copy_section): for a record whose length covers its prefix, the writer
\* receives the prefix followed by the length - prefix.len() bytes at start
\* (as many as the reader holds), and the value returned is the number of
\* bytes written: the prefix length plus the bytes copied.
C4_CopySectionReturnsWritten ==
    (call.fn = "copy_section" /\ ret.fn = "copy_section"
     /\ NatOfU64(call.record.length) >= PrefixLen(call.record))
    => LET r == call.record
           copied == SubSeq(call.reader, NatOfU64(r.start) + 1,
                            Min(Len(call.reader),
                                NatOfU64(r.start) + NatOfU64(r.length) - PrefixLen(r)))
       IN /\ ret.v.res.ok
          /\ ret.v.out = (IF IsSome(r.prefix) THEN r.prefix[1] ELSE <<>>) \o copied
          /\ ret.v.res.v = PrefixLen(r) + Len(copied)

\* C5 (unsupported write fails fast): a flush of a container whose version is
\* V3_2 or V1_0 returns WritingNotSupported, and the sink is empty, at
\* position 0 and never seeked, whatever the content map holds.
C5_UnsupportedWriteFailsFast ==
    (result.op = "flush" /\ pre.version \in {"V3_2", "V1_0"})
    => /\ ~result.ok
       /\ result.err = "WritingNotSupported"
       /\ sink.bytes = <<>>
       /\ wpos = 0
       /\ seeks = 0

\* A flush of a version 3.2 container holding an archive record and an
\* inserted buffer has been refused.
C5_Witness ==
    /\ result.op = "flush"
    /\ ~result.ok
    /\ pre.version = "V3_2"
    /\ \E p \in DOMAIN pre.content : pre.content[p].kind = "Record"
    /\ \E p \in DOMAIN pre.content : pre.content[p].kind = "Raw"

\* C6 (index obfuscation matches the version written): for a container made
\* by new() or open()/read() and the command-line overrides, the index of a
\* flush as V2_0 holds plain start/length values, and reading the output back
\* deobfuscates every entry to the offset and length flush recorded.
C6_IndexObfuscationMatchesVersion ==
    (result.op = "reopen" /\ result.ok /\ PreFlushOk)
    => \A p \in DOMAIN content :
          /\ content[p].kind = "Record"
          /\ content[p].rec = from_value(reader.idx[p], pre.key).v
          /\ pre.version = "V2_0"
                => from_value(reader.idx[p], None).v = from_value(reader.idx[p], pre.key).v

\* C7 (scenario, as stated): opening the archive of the scenario yields one
\* Record entry a.txt with start 0 XOR 0xff and length 10 XOR 0xff, and
\* copying a.txt copies exactly 10 bytes starting at the deobfuscated offset.
C7_ScenarioCopiesTen ==
    /\ result.op = "open" =>
          /\ result.ok
          /\ DOMAIN content = {"a.txt"}
          /\ content["a.txt"] = CRecord([start  |-> U64Xor(U64Zero, KeyFF),
                                         length |-> U64Xor(U64OfNat(10), KeyFF),
                                         prefix |-> None])
    /\ (result.op = "copy" /\ result.path = "a.txt") =>
          /\ result.ok
          /\ result.n = 10
          /\ result.out = SubSeq(reader.bytes, NatOfU64(U64Xor(U64Zero, KeyFF)) + 1,
                                 NatOfU64(U64Xor(U64Zero, KeyFF)) + 10)

\* C7 (scenario, amended): opening the archive of the scenario yields one
\* Record entry a.txt with start 0 XOR 0xff = 255 and length 10 XOR 0xff = 245,
\* and copying a.txt copies the bytes from offset 255 on: 245 of them, or as
\* many as the archive holds there when it holds fewer.
C7_ScenarioCopiesLength ==
    /\ state = "open" =>
          /\ DOMAIN content = {"a.txt"}
          /\ content["a.txt"] = CRecord([start  |-> U64OfNat(255),
                                         length |-> U64OfNat(245),
                                         prefix |-> None])
    /\ result.op = "open" => result.ok
    /\ (result.op = "copy" /\ result.path = "a.txt") =>
          /\ result.ok
          /\ result.n = Min(245, Max(0, Len(reader.bytes) - 255))
          /\ result.out = SubSeq(reader.bytes, 256, 255 + result.n)

\* a.txt of the scenario has been copied out of an archive that holds all
\* the bytes of the entry.
C7_Witness ==
    /\ result.op = "copy"
    /\ result.path = "a.txt"
    /\ result.ok
    /\ result.n = 245
    /\ Len(reader.bytes) > 255 + 245

\* C8 (obfuscation involution): Record::new stores the prefix untouched and,
\* without a key, start and length unchanged; with a key, passing its start
\* and length through Record::new with the same key returns the original
\* start and length, and with a different key returns neither.
C8_ObfuscationInvolution ==
    (call.fn = "Record_new" /\ ret.fn = "Record_new")
    => /\ ret.v.prefix = call.prefix
       /\ call.key = None => (ret.v.start = call.start /\ ret.v.length = call.length)
       /\ IsSome(call.key) =>
             /\ Record_new(ret.v.start, ret.v.length, ret.v.prefix, call.key)
                   = [start |-> call.start, length |-> call.length, prefix |-> call.prefix]
             /\ \A k2 \in U64Samples \ {call.key[1]} :
                   /\ Record_new(ret.v.start, ret.v.length, ret.v.prefix, Some(k2)).start
                         # call.start
                   /\ Record_new(ret.v.start, ret.v.length, ret.v.prefix, Some(k2)).length
                         # call.length

\* Record::new has been applied to u64::MAX and 10 under the key 0xDEADBEEF,
\* with a prefix.
C8_Witness ==
    /\ call.fn = "Record_new"
    /\ ret.fn = "Record_new"
    /\ call.key = Some(DefaultKey)
    /\ call.start = U64Max
    /\ call.length = U64OfNat(10)
    /\ call.prefix = Some(<<9, 9>>)
    /\ ret.v.start # call.start

\* The shapes [[start, length]] and [[start, length, prefix_bytes]].
SerializedShape(value) ==
    /\ value.t = "List"
    /\ Len(value.l) = 1
    /\ value.l[1].t = "List"
    /\ \/ /\ Len(value.l[1].l) = 2
          /\ value.l[1].l[1].t = "I64"
          /\ value.l[1].l[2].t = "I64"
       \/ /\ Len(value.l[1].l) = 3
          /\ value.l[1].l[1].t = "I64"
          /\ value.l[1].l[2].t = "I64"
          /\ value.l[1].l[3].t = "Bytes"

\* C9 (from_value shapes): Record::from_value returns a record for exactly
\* the shapes [[start, length]] and [[start, length, prefix_bytes]], and
\* FormatRecord for every other value.
C9_FromValueShapes ==
    (call.fn = "from_value" /\ ret.fn = "from_value")
    => /\ ret.v.ok <=> SerializedShape(call.value)
       /\ ~ret.v.ok => ret.v.v = "FormatRecord"

\* C10 (record length): every Record of an open container's content map has
\* a length that is at least the length of its prefix.
C10_RecordLengthCoversPrefix ==
    state \in {"open", "readback"} =>
        \A p \in DOMAIN content :
            content[p].kind = "Record"
               => NatOfU64(content[p].rec.length) >= PrefixLen(content[p].rec)

C12_HeaderLengthAndWriteSupport ==
    (call.fn = "header_length" /\ ret.fn = "header_length")
    => /\ call.version = "V3_0" => (ret.v.ok /\ ret.v.v = 34)
       /\ call.version = "V2_0" => (ret.v.ok /\ ret.v.v = 25)
       /\ call.version \in {"V3_2", "V1_0"}
             => (~ret.v.ok /\ ret.v.v = "WritingNotSupported")
       /\ ret.write_support <=> ret.v.ok
       /\ ret.write_support <=> call.version \in {"V2_0", "V3_0"}

\* header_length has been applied to V2_0.
C12_Witness ==
    /\ call.fn = "header_length"
    /\ ret.fn = "header_length"
    /\ call.version = "V2_0"
    /\ ret.v.ok

\* The XOR of the values of the tokens ts
RECURSIVE XorAll(_)
XorAll(ts) == IF ts = <<>> THEN U64Zero ELSE U64Xor(Head(ts).val[1], XorAll(Tail(ts)))

\* The tokens ts all stand for hexadecimal numbers.
AllHex(ts) == \A i \in 1..Len(ts) : ts[i].val # None

\* C13 (metadata parsing): the rest of the first line is split on spaces;
\* the offset is the hexadecimal value of token 1, the key is the XOR of
\* the hexadecimal tokens from token 2 on for V3_0 and from token 3 on for
\* V3_2, and there is no key for V2_0 and V1_0.  A line that ends in a
\* newline, whose offset is the position of the index table and whose
\* subkeys are hexadecimal, is read with success.
C13_MetadataParsing ==
    (call.fn = "read" /\ ret.fn = "read")
    => LET v == identify(call.file_name, call.sig)[1]
           subkeys == IF v = "V3_0" THEN call.tokens
                      ELSE IF v = "V3_2" /\ Len(call.tokens) >= 1 THEN Tail(call.tokens)
                      ELSE <<>>
           enough == v = "V3_2" => Len(call.tokens) >= 1
       IN /\ ret.v.ok =>
               /\ call.off = "good" /\ call.nl /\ enough /\ AllHex(subkeys)
               /\ ret.v.v.version = v
               /\ NatOfU64(ret.v.v.offset) = call.reader.idxpos
               /\ ret.v.v.key = IF v \in {"V3_0", "V3_2"} THEN Some(XorAll(subkeys))
                                ELSE None
          /\ (call.off = "good" /\ call.nl /\ enough /\ AllHex(subkeys)) => ret.v.ok

\* A version 3.2 line has been read whose token 2 is no number and whose
\* two subkeys differ.
C13_Witness ==
    /\ call.fn = "read"
    /\ ret.fn = "read"
    /\ call.sig = SigV3_2
    /\ Len(call.tokens) = 3
    /\ call.tokens[1].val = None
    /\ call.tokens[2].val = Some(KeyFF)
    /\ call.tokens[3].val = Some(KeyBig)
    /\ ret.v.ok
    /\ ret.v.v.key = Some(U64Xor(KeyFF, KeyBig))

\* C14 (read returns success or an error value): for a stream with a
\* recognised signature, whatever the rest of the first line holds, read
\* returns a container or one of the errors ParseOffset, ParseKey,
\* DeserializeIndex, FormatRecord or an I/O error, and never terminates
\* abnormally.
C14_ReadNeverPanics ==
    (call.fn = "read" /\ ret.fn = "read")
    => \/ ret.v.ok
       \/ ret.v.v \in {"ParseOffset", "ParseKey", "DeserializeIndex", "FormatRecord", "Io"}

\* The map `after` is the map `before` but for the keys in `keys`.
SameBut(after, before, keys) ==
    /\ DOMAIN after \ keys = DOMAIN before \ keys
    /\ \A q \in DOMAIN before \ keys : after[q] = before[q]

\* The Option holding the entry of m under p.
Previous(m, p) == IF p \in DOMAIN m THEN <<m[p]>> ELSE <<>>

\* C15 (insertion): insert_file, insert_file_mapped and insert_raw leave the
\* new File or Raw content under the given key, return the entry that was
\* under that key before (None if there was none) and leave every other key
\* and its entry unchanged.
C15_Insertion ==
    /\ (call.fn = "insert_file" /\ ret.fn = "insert_file")
       => /\ call.path \in DOMAIN ret.v.map
          /\ ret.v.map[call.path].kind = "File"
          /\ ret.v.map[call.path].path = call.path
          /\ ret.v.old = Previous(call.map, call.path)
          /\ SameBut(ret.v.map, call.map, {call.path})
    /\ (call.fn = "insert_file_mapped" /\ ret.fn = "insert_file_mapped")
       => /\ call.archive_path \in DOMAIN ret.v.map
          /\ ret.v.map[call.archive_path].kind = "File"
          /\ ret.v.map[call.archive_path].path = call.file_path
          /\ ret.v.old = Previous(call.map, call.archive_path)
          /\ SameBut(ret.v.map, call.map, {call.archive_path})
    /\ (call.fn = "insert_raw" /\ ret.fn = "insert_raw")
       => /\ call.path \in DOMAIN ret.v.map
          /\ ret.v.map[call.path].kind = "Raw"
          /\ ret.v.map[call.path].data = call.bytes
          /\ ret.v.old = Previous(call.map, call.path)
          /\ SameBut(ret.v.map, call.map, {call.path})

\* insert_file_mapped has replaced an in-memory buffer by a reference to a
\* file of another name, in a map that holds a second entry.
C15_Witness ==
    /\ call.fn = "insert_file_mapped"
    /\ ret.fn = "insert_file_mapped"
    /\ call.archive_path # call.file_path
    /\ Cardinality(DOMAIN call.map) = 2
    /\ call.map[call.archive_path].kind = "Raw"
    /\ ret.v.old = <<call.map[call.archive_path]>>

C17_RenameAbsent ==
    (call.fn = "rename_key" /\ ret.fn = "rename_key" /\ call.old_path \notin DOMAIN call.map)
    => /\ ~ret.v.res.ok
       /\ ret.v.res.v = "NotFound"
       /\ ret.v.missing = <<call.old_path>>
       /\ ret.v.map = call.map

\* A rename of an absent path onto an existing entry has been refused.
C17_Witness ==
    /\ call.fn = "rename_key"
    /\ ret.fn = "rename_key"
    /\ call.old_path \notin DOMAIN call.map
    /\ call.new_path \in DOMAIN call.map
    /\ ~ret.v.res.ok

\* A step of copy_file: the outcome afterwards is that of a copy and the
\* files are as they were.
CopyStep == result'.op = "copy" /\ fs' = fs

\* C18 (copy_file): for a path that is not in the content map copy_file
\* returns NotFound and writes nothing; for a path that is, it yields what
\* the entry's copy_to yields against the container's own reader; in both
\* cases the content map, key, version and offset are as before.
C18_CopyFile ==
    [][CopyStep =>
         /\ UNCHANGED <<content, key, version, offset, reader, sink, wpos>>
         /\ result'.path \notin DOMAIN content
            => /\ ~result'.ok
               /\ result'.err = "NotFound"
               /\ result'.out = <<>>
               /\ rpos' = rpos
         /\ result'.path \in DOMAIN content
            => \E checks \in Builds(content) :
                  /\ result'.out
                       = copy_to(content[result'.path], reader.bytes, rpos, fs, checks).out
                  /\ result'.ok
                       = copy_to(content[result'.path], reader.bytes, rpos, fs, checks).res.ok
                  /\ rpos'
                       = copy_to(content[result'.path], reader.bytes, rpos, fs, checks).pos]_vars

\* copy_file has copied the bytes of a record out of the container's reader,
\* and the record is still in the content map.
C18_Witness ==
    /\ state = "open"
    /\ result.op = "copy"
    /\ result.ok
    /\ result.out # <<>>
    /\ result.path \in DOMAIN content
    /\ content[result.path].kind = "Record"

\* C19 (lifecycle): a container goes from unopened to open to flushed; a
\* call of flush on an open container leaves it flushed whether flush
\* succeeds or fails; on a flushed container no insert, update, copy or flush
\* takes place and its fields stay as they are, the only step being the
\* construction of a new container by reading.
C19_Lifecycle ==
    [][/\ state = "unopened" => state' \in {"unopened", "open"}
       /\ state = "open" => state' \in {"open", "flushed"}
       /\ (state = "open" /\ result'.op = "flush" /\ fs' = fs) => state' = "flushed"
       /\ state = "flushed"
          => /\ state' \in {"flushed", "readback"}
             /\ result'.op \in {"flush", "reopen"}
             /\ result'.op = "flush" => result' = result
             /\ state' = "flushed"
                => UNCHANGED <<reader, rpos, key, offset, version, content, sink, wpos,
                               seeks, fs, pre, inserts>>
             /\ state' = "readback" => result'.op = "reopen" /\ result'.ok
       /\ state = "readback" => state' = "readback"]_vars

\* A flush that failed has consumed a container that held entries.
C19_Witness ==
    /\ state = "flushed"
    /\ result.op = "flush"
    /\ ~result.ok
    /\ DOMAIN content # {}

\* The paths of the map m that hold a file reference.
FileEntries(m) == {p \in DOMAIN m : m[p].kind = "File"}

\* The container ar with each reference to an existing file replaced by an
\* in-memory buffer of the bytes the file holds.
FilesRead(ar) ==
    [ar EXCEPT !.content = [p \in DOMAIN ar.content |->
        IF ar.content[p].kind = "File" /\ ar.content[p].path \in DOMAIN ar.fs
        THEN CRaw(ar.fs[ar.content[p].path]) ELSE ar.content[p]]]

\* The container ar without its file references.
FilesDropped(ar) ==
    [ar EXCEPT !.content = [p \in DOMAIN ar.content \ FileEntries(ar.content) |-> ar.content[p]],
               !.order = SelectSeq(ar.order, LAMBDA p : ar.content[p].kind # "File")]

\* The outcome of the flush recorded in the state is that of flushing ar.
FlushedAs(ar) ==
    \E checks \in Builds(ar.content) :
        /\ flush(ar, ar.order, ar.fs, checks).sink = sink
        /\ flush(ar, ar.order, ar.fs, checks).res.ok = result.ok

\* An insert step: the outcome afterwards is that of an insert, on a
\* content map that changed or on a later insert.
InsertStep == result'.op = "insert" /\ inserts' # inserts

\* C20 (lazy file references): insert_file succeeds and stores the reference
\* whether or not the file exists, and leaves the file system alone; a flush
\* of a container with a file reference whose file is missing at flush time
\* fails, with an I/O error when the rest of the container can be written;
\* a flush with the file present writes what it would write had the bytes
\* the file holds at flush time been inserted as a buffer, and the file's
\* bytes are in the output when it succeeds with a header of the length
\* reserved for it.
C20_LazyFiles ==
    /\ [][InsertStep =>
            /\ result'.ok
            /\ fs' = fs
            /\ \E p \in DOMAIN content' :
                  /\ content' = MapInsert(content, p, content'[p])
                  /\ content'[p].kind = "File"
                     => content'[p] = CFile(p)]_vars
    /\ []((state = "flushed" /\ result.op = "flush")
           => /\ (\E p \in FileEntries(pre.content) : pre.content[p].path \notin DOMAIN pre.fs)
                 => /\ ~result.ok
                    /\ flush(FilesDropped(pre), FilesDropped(pre).order, pre.fs, TRUE).res.ok
                       => result.err = "Io"
              /\ (\A p \in FileEntries(pre.content) : pre.content[p].path \in DOMAIN pre.fs)
                 => /\ FlushedAs(FilesRead(pre))
                    /\ (/\ result.ok
                        /\ FileEntries(pre.content) # {}
                        /\ wpos = header_length(pre.version).v)
                       => \E i \in 1..Len(sink.bytes) - Len(FileData) + 1 :
                             SubSeq(sink.bytes, i, i + Len(FileData) - 1) = FileData)

\* A file reference was inserted while the file did not exist, the file
\* was created afterwards, and the flush has written the file's bytes.
C20_Witness ==
    /\ state = "flushed"
    /\ result.op = "flush"
    /\ result.ok
    /\ FileEntries(pre.content) # {}
    /\ FilePath \in DOMAIN pre.fs
    /\ wpos = header_length(pre.version).v
    /\ SubSeq(sink.bytes, wpos + 1, wpos + Len(FileData)) = FileData

\* C21 (remove by pattern): without --keep exactly the entries whose path
\* matches the pattern are removed; with --keep exactly the matching entries
\* are retained.
C21_RemovePattern ==
    (call.fn = "remove" /\ ret.fn = "remove" /\ call.files = <<>> /\ IsSome(call.pattern))
    => /\ ret.v.res.ok
       /\ DOMAIN ret.v.map = IF call.keep THEN DOMAIN call.map \cap call.pattern[1]
                             ELSE DOMAIN call.map \ call.pattern[1]
       /\ \A p \in DOMAIN ret.v.map : ret.v.map[p] = call.map[p]

\* C22 (version override): with --override-version and no --write-version
\* the version becomes V3_0 only when the current version does not support
\* writing; --write-version always decides the version when given; the
\* version is otherwise kept.
C22_OverrideVersion ==
    (call.fn = "update_archive" /\ ret.fn = "update_archive")
    => ret.v.version =
          IF IsSome(call.cfg.write_version) THEN WriteVersionInto(call.cfg.write_version[1])
          ELSE IF call.cfg.override_version /\ ~write_support(call.version) THEN "V3_0"
          ELSE call.version

\* The first index of '=' in s, or 0.
FirstEq(s) == IF \E i \in 1..Len(s) : s[i] = EQ
              THEN CHOOSE i \in 1..Len(s) : s[i] = EQ /\ \A j \in 1..(i - 1) : s[j] # EQ
              ELSE 0

\* C23 (mapped paths): parsing an argument always succeeds; with an '=' the
\* key is the text before the first '=' and the value the text after it,
\* and the pair is (key, value); without one the key is the argument, the
\* value is None and the pair is (key, key).
C23_MappedPath ==
    (call.fn = "MappedPath" /\ ret.fn = "MappedPath")
    => /\ ret.v.parsed.ok
       /\ FirstEq(call.s) > 0
          => /\ ret.v.parsed.v.key = SubSeq(call.s, 1, FirstEq(call.s) - 1)
             /\ ret.v.parsed.v.value = <<SubSeq(call.s, FirstEq(call.s) + 1, Len(call.s))>>
             /\ ret.v.pair = <<SubSeq(call.s, 1, FirstEq(call.s) - 1),
                               SubSeq(call.s, FirstEq(call.s) + 1, Len(call.s))>>
       /\ FirstEq(call.s) = 0
          => /\ ret.v.parsed.v.key = call.s
             /\ ret.v.parsed.v.value = <<>>
             /\ ret.v.pair = <<call.s, call.s>>

\* An argument with two '=' has been split at the first.
C23_Witness ==
    /\ call.fn = "MappedPath"
    /\ ret.fn = "MappedPath"
    /\ Cardinality({i \in 1..Len(call.s) : call.s[i] = EQ}) = 2
    /\ ret.v.parsed.v.key # <<>>
    /\ ret.v.pair[2] # <<>>
    /\ \E i \in 1..Len(ret.v.pair[2]) : ret.v.pair[2][i] = EQ

\* The sink positions at which flush begins to write the entries of ar in
\* the order `order`, the first at position `at`, with the number of bytes
\* each entry's copy_to writes.
RECURSIVE Layout(_, _, _, _)
Layout(ar, order, at, rp) ==
    IF order = <<>> THEN <<>>
    ELSE <<[path  |-> Head(order), begin |-> at,
            len   |-> Len(copy_to(ar.content[Head(order)], ar.reader.bytes, rp, ar.fs, TRUE).out)]>>
         \o Layout(ar, Tail(order),
                   at + Len(copy_to(ar.content[Head(order)], ar.reader.bytes, rp, ar.fs, TRUE).out),
                   copy_to(ar.content[Head(order)], ar.reader.bytes, rp, ar.fs, TRUE).pos)

\* The offset field of the header line at the start of `bytes`.
HeaderOffset(bytes) == FromStrRadix16(SubSeq(bytes, 9, 24))

\* C24 (flush offsets): in the output of a successful flush (a) the start of
\* each new index entry, deobfuscated with the container's key, is the sink
\* position where the bytes of that entry begin, and its length the number
\* of bytes written for it, and (b) the offset of the header is the sink
\* position where the compressed index begins; for Record entries with or
\* without prefix, File and Raw entries alike.
C24_FlushOffsets ==
    (result.op = "flush" /\ result.ok /\ Builds(pre.content) = {TRUE}
     /\ wpos = header_length(pre.version).v)
    => /\ \A i \in 1..Len(pre.order) :
             /\ from_value(sink.idx[pre.order[i]], pre.key).ok
             /\ NatOfU64(from_value(sink.idx[pre.order[i]], pre.key).v.start)
                  = Layout(pre, pre.order, wpos, pre.rpos)[i].begin
             /\ NatOfU64(from_value(sink.idx[pre.order[i]], pre.key).v.length)
                  = Layout(pre, pre.order, wpos, pre.rpos)[i].len
       /\ IsSome(HeaderOffset(sink.bytes))
       /\ NatOfU64(HeaderOffset(sink.bytes)[1]) = sink.idxpos

\* The flush f has written what is in the sink, with the outcome recorded.
SameFlush(f) == f.sink = sink /\ f.res.ok = result.ok

\* The copies c and d have written the same bytes with the same outcome.
SameCopy(c, d) == c.out = d.out /\ c.res = d.res

\* C25 (reader position): wherever earlier operations have left the reader,
\* copy_file yields for every path what it yields with the reader at its
\* start, so each copy yields the same bytes whatever copies preceded it;
\* and a flush writes what it writes with the reader at its start.
C25_ReaderPosition ==
    /\ [](state \in {"open", "readback"}
          => \A p \in DOMAIN content, checks \in Builds(content) :
                SameCopy(copy_file(content, p, reader.bytes, 0, fs, checks),
                         copy_file(content, p, reader.bytes, rpos, fs, checks)))
    /\ []((state = "flushed" /\ result.op = "flush")
          => \E checks \in Builds(pre.content) :
                SameFlush(flush([pre EXCEPT !.rpos = 0], pre.order, pre.fs, checks)))
    /\ [][(CopyStep /\ result'.path \in DOMAIN content)
          => \E checks \in Builds(content) :
                /\ result'.out = copy_file(content, result'.path, reader.bytes, 0, fs, checks).out
                /\ result'.ok
                     = copy_file(content, result'.path, reader.bytes, 0, fs, checks).res.ok]_vars

\* A record has been copied by a reader that open() had left at the end of
\* the archive: the copy has moved the reader back.
C25_Witness ==
    /\ result.op = "copy"
    /\ result.ok
    /\ result.out # <<>>
    /\ content[result.path].kind = "Record"
    /\ PrefixLen(content[result.path].rec) = 0
    /\ rpos = NatOfU64(content[result.path].rec.start) + Len(result.out)
    /\ rpos < Len(reader.bytes)

\* C26 (value round trip): for every record, with start and length anywhere
\* in u64 and the prefix present or absent, from_value(into_value(r), None)
\* is r, and the inner list into_value emits has two elements without a
\* prefix and three with one.
C26_ValueRoundTrip ==
    (call.fn = "into_value" /\ ret.fn = "into_value")
    => /\ ret.v.back.ok
       /\ ret.v.back.v = call.record
       /\ ret.v.value.t = "List"
       /\ Len(ret.v.value.l) = 1
       /\ ret.v.value.l[1].t = "List"
       /\ Len(ret.v.value.l[1].l) = IF IsSome(call.record.prefix) THEN 3 ELSE 2

\* A record with a start of 2^64 - 1 and an empty prefix has gone through
\* into_value and from_value.
C26_Witness ==
    /\ call.fn = "into_value"
    /\ ret.fn = "into_value"
    /\ call.record.start = U64Max
    /\ call.record.prefix = Some(<<>>)
    /\ ret.v.value.l[1].l[1].i.neg
    /\ ret.v.back.ok

\* What extracting path p alone, through a cursor at its start, writes.
Sequential(p) ==
    copy_to(workers.content[p], workers.source, 0, EmptyMap, workers.checks)

\* C27 (parallel extraction): under every interleaving of the workers' steps
\* the bytes written for an entry are at each moment the first bytes of what
\* a sequential extraction of that entry writes, and all of them once the
\* entry is done, with the same outcome; the source and the entries are
\* never modified.
C27_ParallelExtraction ==
    /\ [](workers.pc = "run"
          => \A p \in DOMAIN workers.content :
                /\ Len(workers.out[p]) <= Len(Sequential(p).out)
                /\ workers.out[p] = SubSeq(Sequential(p).out, 1, Len(workers.out[p]))
                /\ workers.res[p] # "none"
                   => /\ workers.out[p] = Sequential(p).out
                      /\ (workers.res[p] = "ok") = Sequential(p).res.ok)
    /\ [][workers.pc = "run"
          => /\ workers'.source = workers.source
             /\ workers'.content = workers.content]_vars

\* Two entries have been extracted, one by each worker, and the cursors of
\* the two workers stand at different positions.
C27_Witness ==
    /\ workers.pc = "run"
    /\ Cardinality(DOMAIN workers.content) = 2
    /\ \A p \in DOMAIN workers.content : workers.res[p] = "ok" /\ workers.out[p] # <<>>
    /\ workers.cur[1].pos > 0
    /\ workers.cur[2].pos > 0
    /\ workers.cur[1].pos # workers.cur[2].pos

\* C28 (replace on success): the flush writes to the temporary file next to
\* the archive and to no other file; the archive's file changes only by the
\* rename that follows a flush that returned Ok, and then holds what flush
\* wrote; when flush fails the archive's file is as it was; and when
\* temp_scope returns without a removal error no temporary file is left.
C28_ReplaceOnSuccess ==
    /\ [](cli.pc # "none"
          => /\ cli.path \in DOMAIN cli.disk
             /\ cli.flushed # "ok" => cli.disk[cli.path] = cli.orig
             /\ cli.disk[cli.path] \in {cli.orig, cli.written}
             /\ (cli.pc = "returned" /\ ~cli.removal)
                => temp_path(cli.path) \notin DOMAIN cli.disk)
    /\ [][cli.pc # "none"
          => /\ cli.pc = "flush"
                => /\ cli'.disk[temp_path(cli.path)] = cli'.written
                   /\ cli'.disk[cli.path] = cli.disk[cli.path]
             /\ cli'.disk[cli.path] # cli.disk[cli.path]
                => /\ cli.pc = "rename"
                   /\ cli.flushed = "ok"
                   /\ cli'.disk[cli.path] = cli.disk[temp_path(cli.path)]]_vars

\* A flush has failed after writing part of its output to the temporary
\* file; temp_scope has removed that file and returned the error, and the
\* archive is as it was.
C28_Witness ==
    /\ cli.pc = "returned"
    /\ cli.flushed = "err"
    /\ ~cli.res.ok
    /\ ~cli.removal
    /\ cli.written.bytes # <<>>
    /\ cli.disk[cli.path] = cli.orig
    /\ temp_path(cli.path) \notin DOMAIN cli.disk

\* The sink of a flush that failed holds the placeholder: nothing when the
\* version cannot be written, and otherwise header_length zero bytes
\* followed by what was written of the entries.
PlaceholderKept ==
    IF header_length(pre.version).ok
    THEN /\ Len(sink.bytes) >= header_length(pre.version).v
         /\ \A i \in 1..header_length(pre.version).v : sink.bytes[i] = 0
    ELSE sink.bytes = <<>>

\* The sink of a flush that succeeded begins with the signature of the
\* version written and holds the index.
HeaderWritten ==
    /\ SubSeq(sink.bytes, 1, 7) = IF pre.version = "V3_0" THEN SigV3_0 ELSE SigV2_0
    /\ Len(sink.bytes) >= header_length(pre.version).v + Len(IndexBlob(sink.idx))

ReadBack(written, r, p) ==
    IF r.ok /\ p \in DOMAIN r.v.content
    THEN copy_to(r.v.content[p], written.bytes, r.v.pos, EmptyMap, TRUE).out
    ELSE <<>>

\* The flush f reopens to a container with the paths S.
Reopens(f, r, S) == f.res.ok /\ r.ok /\ DOMAIN r.v.content = S

\* C30 (iteration order): for every order in which flush may iterate the
\* content map of the container it consumed, the output is an archive that
\* opens, with the same paths, and every path materializes to the same
\* bytes as in the output that was written.
C30_OrderIndependence ==
    (state = "flushed" /\ result.op = "flush" /\ result.ok /\ Builds(pre.content) = {TRUE})
    => \A o \in Orders(DOMAIN pre.content) :
          /\ Reopens(flush(pre, o, pre.fs, TRUE),
                     read(flush(pre, o, pre.fs, TRUE).sink, <<>>), DOMAIN pre.content)
          /\ \A p \in DOMAIN pre.content :
                ReadBack(flush(pre, o, pre.fs, TRUE).sink,
                         read(flush(pre, o, pre.fs, TRUE).sink, <<>>), p)
                  = ReadBack(sink, read(sink, <<>>), p)

====
